---------------------------- MODULE Spec2Model ----------------------------
(***************************************************************************)
(* Model of binary-version-analyzer: the pattern registry, the binary     *)
(* scanner with its candidate extraction, and the version chooser         *)
(* providers.  Go strings are modelled as sequences of byte values.       *)
(***************************************************************************)
EXTENDS Integers, Sequences, FiniteSets, TLC

\* ------------------------------------------------------------------------
\* Strings as byte sequences
\* ------------------------------------------------------------------------

\* The printable ASCII characters in code order, 32..126.
Ascii ==
  << " ", "!", "\"", "#", "$", "%", "&", "'", "(", ")", "*", "+", ",", "-", ".", "/",
     "0", "1", "2", "3", "4", "5", "6", "7", "8", "9", ":", ";", "<", "=", ">", "?",
     "@", "A", "B", "C", "D", "E", "F", "G", "H", "I", "J", "K", "L", "M", "N", "O",
     "P", "Q", "R", "S", "T", "U", "V", "W", "X", "Y", "Z", "[", "\\", "]", "^", "_",
     "backtick", "a", "b", "c", "d", "e", "f", "g", "h", "i", "j", "k", "l", "m", "n", "o",
     "p", "q", "r", "s", "t", "u", "v", "w", "x", "y", "z", "{", "|", "}", "~" >>

\* Byte value of a printable ASCII character.
Ord(c) == 31 + (CHOOSE i \in 1..Len(Ascii) : Ascii[i] = c)

\* A Go string literal, written character by character, as its bytes.
B(t) == [i \in 1..Len(t) |-> Ord(t[i])]

TAB == 9
LF == 10
CR == 13
SPACE == 32

Digits == 48..57
Upper == 65..90
Lower == 97..122

\* ------------------------------------------------------------------------
\* Regular expressions (the subset of Go regexp syntax the registry uses)
\* ------------------------------------------------------------------------

\* A character set compiled without the (?i) flag.
FoldNone(set) == set

\* Case folding of the (?i) flag, on ASCII letters.
Fold(set) ==
  set \cup {c + 32 : c \in set \cap Upper} \cup {c - 32 : c \in set \cap Lower}

Set(s) == [t |-> "set", s |-> s]
Lit(c) == Set(Fold({Ord(c)}))
Seq2(a) == [t |-> "seq", a |-> a]
Lits(w) == Seq2([i \in 1..Len(w) |-> Lit(w[i])])
Alt(a) == [t |-> "alt", a |-> a]
Rep(r, lo, hi, greedy) == [t |-> "rep", r |-> r, lo |-> lo, hi |-> hi, greedy |-> greedy]
Inf == 0 - 1
Star(r) == Rep(r, 0, Inf, TRUE)
Plus(r) == Rep(r, 1, Inf, TRUE)
Opt(r) == Rep(r, 0, 1, TRUE)
LazyStar(r) == Rep(r, 0, Inf, FALSE)
Cap(r) == [t |-> "cap", r |-> r]
WordBoundary == [t |-> "wb"]

\* Perl character classes as Go's regexp/syntax defines them.
ClassD == Digits                                  \* \d
ClassW == Digits \cup Upper \cup Lower \cup {95}  \* \w
ClassS == {TAB, LF, 12, CR, SPACE}                \* \s
AnyChar == Set((0..255) \ {LF})                   \* .  (no (?s) flag)
DigitOrDot == Set(ClassD \cup {46})               \* [\d.]
WordOrDot == Set(ClassW \cup {46})                \* [\w.]
Spaces == Star(Set(ClassS))                       \* \s*

IsWordChar(s, i) == i >= 1 /\ i <= Len(s) /\ s[i] \in ClassW

\* \b at offset p (between byte p and byte p+1).
AtWordBoundary(s, p) == IsWordChar(s, p) # IsWordChar(s, p + 1)

Min(a, b) == IF a < b THEN a ELSE b

\* The least element of a non-empty set of integers.
Least(S) == CHOOSE x \in S : \A y \in S : x <= y

\* Backtracking match of node n on s from thread st = [p, cs, ce]: the
\* threads after n, in the order of preference of leftmost-first matching.
RECURSIVE Match(_, _, _), MatchSeq(_, _, _, _), MatchSeqAll(_, _, _, _, _, _),
          MatchAlt(_, _, _, _), MatchRep(_, _, _, _), MatchRepAll(_, _, _, _, _, _)
\* A repetition of a character class: the run of class members after st.p,
\* the longest first when greedy, the shortest first when lazy.
MatchRun(n, s, st) ==
  LET limit == IF n.hi = Inf THEN Len(s) - st.p ELSE Min(n.hi, Len(s) - st.p)
      bad == {i \in 1..limit : s[st.p + i] \notin n.r.s}
      run == IF bad = {} THEN limit ELSE Least(bad) - 1
  IN  IF run < n.lo THEN << >>
      ELSE [i \in 1..(run - n.lo + 1) |->
              [st EXCEPT !.p = st.p + (IF n.greedy THEN run - i + 1 ELSE n.lo + i - 1)]]

Match(n, s, st) ==
  CASE n.t = "set" ->
         IF st.p < Len(s) /\ s[st.p + 1] \in n.s
           THEN << [st EXCEPT !.p = @ + 1] >>
           ELSE << >>
    [] n.t = "wb" -> IF AtWordBoundary(s, st.p) THEN << st >> ELSE << >>
    [] n.t = "seq" -> MatchSeq(n.a, 1, s, st)
    [] n.t = "alt" -> MatchAlt(n.a, 1, s, st)
    [] n.t = "rep" -> IF n.r.t = "set" THEN MatchRun(n, s, st) ELSE MatchRep(n, 0, s, st)
    [] n.t = "cap" ->
         LET inner == Match(n.r, s, st)
         IN  [i \in 1..Len(inner) |-> [inner[i] EXCEPT !.cs = st.p, !.ce = inner[i].p]]

\* The items k.. of a concatenation, from one thread.
MatchSeq(items, k, s, st) ==
  IF k > Len(items) THEN << st >>
  ELSE LET sts == Match(items[k], s, st)
       IN  MatchSeqAll(items, k + 1, s, sts, 1, Len(sts))

\* ... from each of the threads sts[lo..hi], in their order.
MatchSeqAll(items, k, s, sts, lo, hi) ==
  IF lo > hi THEN << >>
  ELSE IF lo = hi THEN MatchSeq(items, k, s, sts[lo])
  ELSE LET mid == (lo + hi) \div 2
       IN  MatchSeqAll(items, k, s, sts, lo, mid) \o MatchSeqAll(items, k, s, sts, mid + 1, hi)

MatchAlt(items, k, s, st) ==
  IF k > Len(items) THEN << >>
  ELSE Match(items[k], s, st) \o MatchAlt(items, k + 1, s, st)

\* A repetition after count iterations: an iteration must consume input.
MatchRep(n, count, s, st) ==
  LET stop == IF count >= n.lo THEN << st >> ELSE << >>
      sts == SelectSeq(Match(n.r, s, st), LAMBDA x : x.p > st.p)
      more == IF n.hi = Inf \/ count < n.hi
                THEN MatchRepAll(n, count + 1, s, sts, 1, Len(sts))
                ELSE << >>
  IN  IF n.greedy THEN more \o stop ELSE stop \o more

MatchRepAll(n, count, s, sts, lo, hi) ==
  IF lo > hi THEN << >>
  ELSE IF lo = hi THEN MatchRep(n, count, s, sts[lo])
  ELSE LET mid == (lo + hi) \div 2
       IN  MatchRepAll(n, count, s, sts, lo, mid) \o MatchRepAll(n, count, s, sts, mid + 1, hi)

NoMatch == [ok |-> FALSE]

\* The match of re in s that starts at offset p, if there is one: the
\* groups <<whole, group 1>> and the offsets [b, e) of the match.
MatchAt(re, s, p) ==
  LET r == Match(re, s, [p |-> p, cs |-> 0 - 1, ce |-> 0 - 1])
  IN  IF r = << >> THEN NoMatch
      ELSE [ok |-> TRUE, b |-> p, e |-> r[1].p,
            groups |-> << SubSeq(s, p + 1, r[1].p),
                          IF r[1].cs < 0 THEN << >>
                          ELSE SubSeq(s, r[1].cs + 1, r[1].ce) >>]

\* The leftmost match of re in s that starts at an offset in lo..hi.
RECURSIVE FindIn(_, _, _, _)
FindIn(re, s, lo, hi) ==
  IF lo > hi THEN NoMatch
  ELSE IF lo = hi THEN MatchAt(re, s, lo)
  ELSE LET mid == (lo + hi) \div 2
           left == FindIn(re, s, lo, mid)
       IN  IF left.ok THEN left ELSE FindIn(re, s, mid + 1, hi)

FindFrom(re, s, from) == FindIn(re, s, from, Len(s))

\* regexp.FindStringSubmatch: the groups of the leftmost match, or nil.
FindStringSubmatch(re, s) ==
  LET m == FindFrom(re, s, 0) IN IF m.ok THEN m.groups ELSE << >>

\* regexp.FindAllStringSubmatch(s, -1): successive non-overlapping matches.
RECURSIVE FindAllFrom(_, _, _)
FindAllFrom(re, s, from) ==
  LET m == FindFrom(re, s, from)
  IN  IF ~m.ok THEN << >>
      ELSE << m.groups >> \o FindAllFrom(re, s, IF m.e > m.b THEN m.e ELSE m.e + 1)

FindAllStringSubmatch(re, s) == FindAllFrom(re, s, 0)

\* ------------------------------------------------------------------------
\* The pattern registry (patterns/version_patterns.go)
\* ------------------------------------------------------------------------

\* (?:-[\w.]+)?
PreRelease == Opt(Seq2(<< Lit("-"), Plus(WordOrDot) >>))
\* ([\d.]+(?:-[\w.]+)?)
VersionGroup == Cap(Seq2(<< Plus(DigitOrDot), PreRelease >>))
\* ([\d.]+)
NumberGroup == Cap(Plus(DigitOrDot))
\* [-_\s]
Separator == Set({Ord("-"), Ord("_")} \cup ClassS)
\* [.\-_]?
DateSep == Opt(Set({Ord("."), Ord("-"), Ord("_")}))
Digit == Set(ClassD)

\* (?i)version\s*[=:]?\s*([\d.]+(?:-[\w.]+)?)
Regex1 ==
  Seq2(<< Lits(<<"v","e","r","s","i","o","n">>), Spaces,
          Opt(Set({Ord("="), Ord(":")})), Spaces, VersionGroup >>)
\* (?i)\bv\s*([\d.]+(?:-[\w.]+)?)\b
Regex2 == Seq2(<< WordBoundary, Lit("v"), Spaces, VersionGroup, WordBoundary >>)
\* (?i)([\d.]+(?:-[\w.]+)?)\s*\(stable\)
Regex3 ==
  Seq2(<< VersionGroup, Spaces, Lit("("), Lits(<<"s","t","a","b","l","e">>), Lit(")") >>)
\* (?i)([\d.]+(?:-[\w.]+)?)\s*release
Regex4 == Seq2(<< VersionGroup, Spaces, Lits(<<"r","e","l","e","a","s","e">>) >>)
\* (?i)glibc[-_]?([\d.]+)
Regex5 ==
  Seq2(<< Lits(<<"g","l","i","b","c">>), Opt(Set({Ord("-"), Ord("_")})), NumberGroup >>)
\* (?i)([\d.]+)\s*\(glibc
Regex6 == Seq2(<< NumberGroup, Spaces, Lit("("), Lits(<<"g","l","i","b","c">>) >>)
\* (?i)lib\w*[-_]([\d.]+(?:-[\w.]+)?)
Regex7 ==
  Seq2(<< Lits(<<"l","i","b">>), Star(Set(ClassW)),
          Set({Ord("-"), Ord("_")}), VersionGroup >>)
\* (?i)([\d.]+(?:-[\w.]+)?)\s*stable
Regex8 == Seq2(<< VersionGroup, Spaces, Lits(<<"s","t","a","b","l","e">>) >>)
\* (?i)build\s*[#:]?\s*([\d.]+(?:-[\w.]+)?)
Regex9 ==
  Seq2(<< Lits(<<"b","u","i","l","d">>), Spaces,
          Opt(Set({Ord("#"), Ord(":")})), Spaces, VersionGroup >>)
\* (?i)\b([\d]+\.[\d]+\.[\d]+(?:-[\w.]+)?(?:\+[\w.]+)?)\b
Regex10 ==
  Seq2(<< WordBoundary,
          Cap(Seq2(<< Plus(Digit), Lit("."), Plus(Digit), Lit("."), Plus(Digit),
                      PreRelease, Opt(Seq2(<< Lit("+"), Plus(WordOrDot) >>)) >>)),
          WordBoundary >>)
\* (?i)(?:gcc|clang|msvc)(?:[-_\s]+version\s+|[-_\s]*)([\d.]+)
Regex11 ==
  Seq2(<< Alt(<< Lits(<<"g","c","c">>), Lits(<<"c","l","a","n","g">>),
                 Lits(<<"m","s","v","c">>) >>),
          Alt(<< Seq2(<< Plus(Separator), Lits(<<"v","e","r","s","i","o","n">>),
                         Plus(Set(ClassS)) >>),
                 Star(Separator) >>),
          NumberGroup >>)
\* (?i)(?:pkg|package)[-_\s]*([\d.]+(?:-[\w.]+)?)
Regex12 ==
  Seq2(<< Alt(<< Lits(<<"p","k","g">>), Lits(<<"p","a","c","k","a","g","e">>) >>),
          Star(Separator), VersionGroup >>)
\* (?i)copyright.*?(\d{4})
Regex13 ==
  Seq2(<< Lits(<<"c","o","p","y","r","i","g","h","t">>), LazyStar(AnyChar),
          Cap(Rep(Digit, 4, 4, TRUE)) >>)
\* (?i)\b(20\d{2}[.\-_]?(?:0[1-9]|1[0-2])[.\-_]?(?:0[1-9]|[12]\d|3[01]))\b
Regex14 ==
  Seq2(<< WordBoundary,
          Cap(Seq2(<< Lit("2"), Lit("0"), Rep(Digit, 2, 2, TRUE), DateSep,
                      Alt(<< Seq2(<< Lit("0"), Set(49..57) >>),
                             Seq2(<< Lit("1"), Set(48..50) >>) >>),
                      DateSep,
                      Alt(<< Seq2(<< Lit("0"), Set(49..57) >>),
                             Seq2(<< Set({49, 50}), Digit >>),
                             Seq2(<< Lit("3"), Set({48, 49}) >>) >>) >>)),
          WordBoundary >>)
\* (?i)api.*?([\d.]+)
Regex15 == Seq2(<< Lits(<<"a","p","i">>), LazyStar(AnyChar), NumberGroup >>)

\* The self-test entries of pattern 1.
Fixture1 ==
  [Examples |->
      << B(<<"v","e","r","s","i","o","n"," ","1",".","2",".","3">>),
         B(<<"V","e","r","s","i","o","n",":"," ","2",".","4",".","1">>),
         B(<<"v","e","r","s","i","o","n","=","3",".","1",".","0","-","b","e","t","a">>),
         B(<<"V","E","R","S","I","O","N"," ","1",".","0",".","0">>) >>,
   Expected |->
      << B(<<"1",".","2",".","3">>),
         B(<<"2",".","4",".","1">>),
         B(<<"3",".","1",".","0","-","b","e","t","a">>),
         B(<<"1",".","0",".","0">>) >>]

\* The self-test entries of pattern 2.
Fixture2 ==
  [Examples |->
      << B(<<"v","1",".","2",".","3">>),
         B(<<"V","2",".","0",".","1">>),
         B(<<"v","3",".","1",".","0","-","a","l","p","h","a">>),
         B(<<"b","u","i","l","t"," ","w","i","t","h"," ","v","1",".","1","8",".","5">>) >>,
   Expected |->
      << B(<<"1",".","2",".","3">>),
         B(<<"2",".","0",".","1">>),
         B(<<"3",".","1",".","0","-","a","l","p","h","a">>),
         B(<<"1",".","1","8",".","5">>) >>]

\* The self-test entries of pattern 3.
Fixture3 ==
  [Examples |->
      << B(<<"2",".","1",".","3"," ","(","s","t","a","b","l","e",")">>),
         B(<<"1",".","0",".","0","-","r","c","1"," ","(","s","t","a","b","l","e",")">>),
         B(<<"3",".","2",".","1","(","s","t","a","b","l","e",")">>) >>,
   Expected |->
      << B(<<"2",".","1",".","3">>),
         B(<<"1",".","0",".","0","-","r","c","1">>),
         B(<<"3",".","2",".","1">>) >>]

\* The self-test entries of pattern 4.
Fixture4 ==
  [Examples |->
      << B(<<"1",".","4",".","2"," ","r","e","l","e","a","s","e">>),
         B(<<"2",".","0",".","0","-","b","e","t","a"," ","r","e","l","e","a","s","e">>),
         B(<<"3",".","1",".","1","r","e","l","e","a","s","e">>) >>,
   Expected |->
      << B(<<"1",".","4",".","2">>),
         B(<<"2",".","0",".","0","-","b","e","t","a">>),
         B(<<"3",".","1",".","1">>) >>]

\* The self-test entries of pattern 5.
Fixture5 ==
  [Examples |->
      << B(<<"g","l","i","b","c","-","2",".","3","1">>),
         B(<<"G","L","I","B","C","_","2",".","2","7">>),
         B(<<"g","l","i","b","c","2",".","3","5">>),
         B(<<"g","l","i","b","c","_","2",".","2","8">>) >>,
   Expected |->
      << B(<<"2",".","3","1">>),
         B(<<"2",".","2","7">>),
         B(<<"2",".","3","5">>),
         B(<<"2",".","2","8">>) >>]

\* The self-test entries of pattern 6.
Fixture6 ==
  [Examples |->
      << B(<<"2",".","3","1"," ","(","g","l","i","b","c",")">>),
         B(<<"2",".","2","7"," ","(","G","L","I","B","C"," ","c","o","m","p","a","t","i","b","l","e",")">>),
         B(<<"2",".","3","5","(","g","l","i","b","c">>) >>,
   Expected |->
      << B(<<"2",".","3","1">>),
         B(<<"2",".","2","7">>),
         B(<<"2",".","3","5">>) >>]

\* The self-test entries of pattern 7.
Fixture7 ==
  [Examples |->
      << B(<<"l","i","b","s","s","l","-","1",".","1",".","1">>),
         B(<<"l","i","b","c","r","y","p","t","o","_","3",".","0",".","2">>),
         B(<<"l","i","b","z","-","1",".","2",".","1","1">>),
         B(<<"l","i","b","p","t","h","r","e","a","d","-","2",".","3","1">>) >>,
   Expected |->
      << B(<<"1",".","1",".","1">>),
         B(<<"3",".","0",".","2">>),
         B(<<"1",".","2",".","1","1">>),
         B(<<"2",".","3","1">>) >>]

\* The self-test entries of pattern 8.
Fixture8 ==
  [Examples |->
      << B(<<"1",".","8",".","0"," ","s","t","a","b","l","e">>),
         B(<<"2",".","1",".","3","-","r","c","1"," ","s","t","a","b","l","e">>),
         B(<<"3",".","0",".","0","s","t","a","b","l","e">>) >>,
   Expected |->
      << B(<<"1",".","8",".","0">>),
         B(<<"2",".","1",".","3","-","r","c","1">>),
         B(<<"3",".","0",".","0">>) >>]

\* The self-test entries of pattern 9.
Fixture9 ==
  [Examples |->
      << B(<<"b","u","i","l","d"," ","1",".","2",".","3">>),
         B(<<"B","u","i","l","d",":"," ","2",".","0",".","1">>),
         B(<<"b","u","i","l","d","#","1",".","5",".","0","-","b","e","t","a">>),
         B(<<"B","U","I","L","D"," ","3",".","1",".","0">>) >>,
   Expected |->
      << B(<<"1",".","2",".","3">>),
         B(<<"2",".","0",".","1">>),
         B(<<"1",".","5",".","0","-","b","e","t","a">>),
         B(<<"3",".","1",".","0">>) >>]

\* The self-test entries of pattern 10.
Fixture10 ==
  [Examples |->
      << B(<<"1",".","2",".","3">>),
         B(<<"1","0",".","1","5",".","7">>),
         B(<<"2",".","1",".","0","-","a","l","p","h","a",".","1">>),
         B(<<"1",".","0",".","0","+","2","0","2","2","0","1","0","1">>),
         B(<<"3",".","2",".","1","-","b","e","t","a",".","2","+","b","u","i","l","d",".","1","2","3">>) >>,
   Expected |->
      << B(<<"1",".","2",".","3">>),
         B(<<"1","0",".","1","5",".","7">>),
         B(<<"2",".","1",".","0","-","a","l","p","h","a",".","1">>),
         B(<<"1",".","0",".","0","+","2","0","2","2","0","1","0","1">>),
         B(<<"3",".","2",".","1","-","b","e","t","a",".","2","+","b","u","i","l","d",".","1","2","3">>) >>]

\* The self-test entries of pattern 11.
Fixture11 ==
  [Examples |->
      << B(<<"g","c","c","-","9",".","4",".","0">>),
         B(<<"c","l","a","n","g"," ","1","3",".","0",".","1">>),
         B(<<"M","S","V","C","_","1","9",".","2","9">>),
         B(<<"g","c","c"," ","v","e","r","s","i","o","n"," ","1","1",".","2",".","0">>) >>,
   Expected |->
      << B(<<"9",".","4",".","0">>),
         B(<<"1","3",".","0",".","1">>),
         B(<<"1","9",".","2","9">>),
         B(<<"1","1",".","2",".","0">>) >>]

\* The self-test entries of pattern 12.
Fixture12 ==
  [Examples |->
      << B(<<"p","k","g","-","1",".","2",".","3">>),
         B(<<"p","a","c","k","a","g","e"," ","2",".","0",".","1">>),
         B(<<"P","K","G","_","3",".","1",".","0","-","b","e","t","a">>) >>,
   Expected |->
      << B(<<"1",".","2",".","3">>),
         B(<<"2",".","0",".","1">>),
         B(<<"3",".","1",".","0","-","b","e","t","a">>) >>]

\* The self-test entries of pattern 13.
Fixture13 ==
  [Examples |->
      << B(<<"C","o","p","y","r","i","g","h","t"," ","(","c",")"," ","2","0","2","3">>),
         B(<<"C","o","p","y","r","i","g","h","t"," ","2","0","2","2"," ","C","o","m","p","a","n","y">>),
         B(<<"(","C",")"," ","C","o","p","y","r","i","g","h","t"," ","2","0","2","1">>) >>,
   Expected |->
      << B(<<"2","0","2","3">>),
         B(<<"2","0","2","2">>),
         B(<<"2","0","2","1">>) >>]

\* The self-test entries of pattern 14.
Fixture14 ==
  [Examples |->
      << B(<<"2","0","2","3",".","1","2",".","1","5">>),
         B(<<"2","0","2","2","-","0","3","-","2","1">>),
         B(<<"2","0","2","3","1","2","0","1">>),
         B(<<"2","0","2","3","_","1","1","_","3","0">>) >>,
   Expected |->
      << B(<<"2","0","2","3",".","1","2",".","1","5">>),
         B(<<"2","0","2","2","-","0","3","-","2","1">>),
         B(<<"2","0","2","3","1","2","0","1">>),
         B(<<"2","0","2","3","_","1","1","_","3","0">>) >>]

\* The self-test entries of pattern 15.
Fixture15 ==
  [Examples |->
      << B(<<"A","P","I"," ","v","1",".","2">>),
         B(<<"a","p","i","_","v","e","r","s","i","o","n","_","2",".","1">>),
         B(<<"A","P","I","-","3",".","0">>) >>,
   Expected |->
      << B(<<"1",".","2">>),
         B(<<"2",".","1">>),
         B(<<"3",".","0">>) >>]

VersionPatterns ==
  << [Name |-> "Standard Version Declaration", Pattern |-> Regex1,
      Examples |-> Fixture1.Examples, Expected |-> Fixture1.Expected, Priority |-> 1],
     [Name |-> "V-Prefixed Version", Pattern |-> Regex2,
      Examples |-> Fixture2.Examples, Expected |-> Fixture2.Expected, Priority |-> 2],
     [Name |-> "Stable Release Version", Pattern |-> Regex3,
      Examples |-> Fixture3.Examples, Expected |-> Fixture3.Expected, Priority |-> 1],
     [Name |-> "Release Keyword Version", Pattern |-> Regex4,
      Examples |-> Fixture4.Examples, Expected |-> Fixture4.Expected, Priority |-> 2],
     [Name |-> "GLIBC Version", Pattern |-> Regex5,
      Examples |-> Fixture5.Examples, Expected |-> Fixture5.Expected, Priority |-> 3],
     [Name |-> "GLIBC Context Version", Pattern |-> Regex6,
      Examples |-> Fixture6.Examples, Expected |-> Fixture6.Expected, Priority |-> 4],
     [Name |-> "Library Version", Pattern |-> Regex7,
      Examples |-> Fixture7.Examples, Expected |-> Fixture7.Expected, Priority |-> 3],
     [Name |-> "Stable Keyword Version", Pattern |-> Regex8,
      Examples |-> Fixture8.Examples, Expected |-> Fixture8.Expected, Priority |-> 2],
     [Name |-> "Build Version", Pattern |-> Regex9,
      Examples |-> Fixture9.Examples, Expected |-> Fixture9.Expected, Priority |-> 4],
     [Name |-> "Semantic Version", Pattern |-> Regex10,
      Examples |-> Fixture10.Examples, Expected |-> Fixture10.Expected, Priority |-> 2],
     [Name |-> "Compiler Version", Pattern |-> Regex11,
      Examples |-> Fixture11.Examples, Expected |-> Fixture11.Expected, Priority |-> 5],
     [Name |-> "Package Version", Pattern |-> Regex12,
      Examples |-> Fixture12.Examples, Expected |-> Fixture12.Expected, Priority |-> 4],
     [Name |-> "Copyright Year Version", Pattern |-> Regex13,
      Examples |-> Fixture13.Examples, Expected |-> Fixture13.Expected, Priority |-> 8],
     [Name |-> "Date-based Version", Pattern |-> Regex14,
      Examples |-> Fixture14.Examples, Expected |-> Fixture14.Expected, Priority |-> 6],
     [Name |-> "API Version", Pattern |-> Regex15,
      Examples |-> Fixture15.Examples, Expected |-> Fixture15.Expected, Priority |-> 5] >>


\* GetCompiledPatterns: the compiled expressions, in declaration order.
GetCompiledPatterns == [i \in 1..Len(VersionPatterns) |-> VersionPatterns[i].Pattern]

\* ------------------------------------------------------------------------
\* Helper functions of the analyzer
\* ------------------------------------------------------------------------

\* White space of strings.TrimSpace within the byte alphabet of the model.
IsSpace(b) == b \in {TAB, LF, 11, 12, CR, SPACE}

RECURSIVE TrimLeft(_), TrimRight(_)
TrimLeft(s) == IF s # << >> /\ IsSpace(Head(s)) THEN TrimLeft(Tail(s)) ELSE s
TrimRight(s) ==
  IF s # << >> /\ IsSpace(s[Len(s)]) THEN TrimRight(SubSeq(s, 1, Len(s) - 1)) ELSE s
TrimSpace(s) == TrimRight(TrimLeft(s))

RuneError == 65533

IsCont(s, i) == i <= Len(s) /\ s[i] >= 128 /\ s[i] <= 191

\* The rune that a range loop decodes at byte index i (1-based) of s, and
\* its width in bytes: an invalid or truncated encoding is RuneError, width 1.
DecodeRune(s, i) ==
  LET b0 == s[i]
      b1 == IF i + 1 <= Len(s) THEN s[i + 1] ELSE 0
      lo2 == IF b0 = 224 THEN 160 ELSE IF b0 = 240 THEN 144 ELSE 128
      hi2 == IF b0 = 237 THEN 159 ELSE IF b0 = 244 THEN 143 ELSE 191
      second == i + 1 <= Len(s) /\ b1 >= lo2 /\ b1 <= hi2
  IN  IF b0 < 128 THEN [r |-> b0, w |-> 1]
      ELSE IF b0 >= 194 /\ b0 <= 223 /\ second
        THEN [r |-> (b0 - 192) * 64 + (b1 - 128), w |-> 2]
      ELSE IF b0 >= 224 /\ b0 <= 239 /\ second /\ IsCont(s, i + 2)
        THEN [r |-> (b0 - 224) * 4096 + (b1 - 128) * 64 + (s[i + 2] - 128), w |-> 3]
      ELSE IF b0 >= 240 /\ b0 <= 244 /\ second /\ IsCont(s, i + 2) /\ IsCont(s, i + 3)
        THEN [r |-> (b0 - 240) * 262144 + (b1 - 128) * 4096
                    + (s[i + 2] - 128) * 64 + (s[i + 3] - 128), w |-> 4]
      ELSE [r |-> RuneError, w |-> 1]

PrintableSample == 200
PrintableDivisor == 10

\* One pass of the loop of isPrintable at byte index p (0-based, as in the
\* code) with st = [next, count, binary]: the range loop visits the indices
\* at which a rune starts (st.next), and st.binary says that the function
\* has returned false.
isPrintableAt(s, p, st, checkLen) ==
  IF st.binary \/ p # st.next THEN st
  ELSE LET d == DecodeRune(s, p + 1)
       IN  IF d.r \in {TAB, LF, CR}
             THEN [st EXCEPT !.next = p + d.w]
           ELSE IF d.r < 32 \/ d.r > 126
             THEN IF st.count + 1 > checkLen \div PrintableDivisor
                    THEN [st EXCEPT !.binary = TRUE]
                    ELSE [st EXCEPT !.next = p + d.w, !.count = @ + 1]
           ELSE [st EXCEPT !.next = p + d.w]

\* The loop of isPrintable over the byte indices lo..hi-1.
RECURSIVE isPrintableFrom(_, _, _, _, _)
isPrintableFrom(s, lo, hi, st, checkLen) ==
  IF st.binary \/ lo >= hi THEN st
  ELSE IF hi = lo + 1 THEN isPrintableAt(s, lo, st, checkLen)
  ELSE LET mid == (lo + hi) \div 2
           left == isPrintableFrom(s, lo, mid, st, checkLen)
       IN  isPrintableFrom(s, mid, hi, left, checkLen)

isPrintable(s) ==
  LET checkLen == Min(Len(s), PrintableSample)
      start == [next |-> 0, count |-> 0, binary |-> FALSE]
  IN  IF Len(s) = 0 THEN FALSE
      ELSE ~isPrintableFrom(s, 0, checkLen, start, checkLen).binary

MaxVersionLen == 20

\* The loop of isValidVersion over the runes of the version v from byte index i
\* (1-based): FALSE at the first character that is not allowed.
RECURSIVE isValidVersionFrom(_, _, _, _)
isValidVersionFrom(v, i, hasDigit, hasDot) ==
  IF i > Len(v) THEN hasDigit /\ hasDot
  ELSE LET d == DecodeRune(v, i)
       IN  IF d.r >= 48 /\ d.r <= 57
             THEN isValidVersionFrom(v, i + d.w, TRUE, hasDot)
           ELSE IF d.r = 46
             THEN isValidVersionFrom(v, i + d.w, hasDigit, TRUE)
           ELSE IF d.r # 45 /\ d.r # 95
             THEN FALSE
           ELSE isValidVersionFrom(v, i + d.w, hasDigit, hasDot)

\* isValidVersion without its bound on the length.
isValidVersionLenOff(v) ==
  IF Len(v) = 0 THEN FALSE
  ELSE isValidVersionFrom(v, 1, FALSE, FALSE)

isValidVersion(v) ==
  IF Len(v) = 0 \/ Len(v) > MaxVersionLen THEN FALSE
  ELSE isValidVersionFrom(v, 1, FALSE, FALSE)

\* ------------------------------------------------------------------------
\* Candidate extraction (the pattern loop shared by both scans)
\* ------------------------------------------------------------------------

\* The loop over the matches without the look-up in candidateSet.
RECURSIVE AddMatchesNoSet(_, _, _)
AddMatchesNoSet(matches, j, acc) ==
  IF j > Len(matches) THEN acc
  ELSE LET match == matches[j]
           v == TrimSpace(match[2])
       IN  IF Len(match) > 1 /\ isValidVersion(v)
             THEN AddMatchesNoSet(matches, j + 1,
                                  [candidates |-> Append(acc.candidates, v),
                                   candidateSet |-> acc.candidateSet \cup {v}])
             ELSE AddMatchesNoSet(matches, j + 1, acc)

\* The loop over the matches of one pattern: acc = [candidates, candidateSet].
RECURSIVE AddMatches(_, _, _)
AddMatches(matches, j, acc) ==
  IF j > Len(matches) THEN acc
  ELSE LET match == matches[j]
           v == TrimSpace(match[2])
       IN  IF Len(match) > 1 /\ isValidVersion(v) /\ v \notin acc.candidateSet
             THEN AddMatches(matches, j + 1,
                             [candidates |-> Append(acc.candidates, v),
                              candidateSet |-> acc.candidateSet \cup {v}])
             ELSE AddMatches(matches, j + 1, acc)

\* The pattern loop taking the patterns last to first.
RECURSIVE ExtractFromReversed(_, _, _, _)
ExtractFromReversed(patterns, k, line, acc) ==
  IF k > Len(patterns) THEN acc
  ELSE ExtractFromReversed(patterns, k + 1, line,
         AddMatches(FindAllStringSubmatch(patterns[Len(patterns) + 1 - k], line), 1, acc))

\* The pattern loop leaving at the first pattern that matches the line.
RECURSIVE ExtractFromFirstOnly(_, _, _, _)
ExtractFromFirstOnly(patterns, k, line, acc) ==
  IF k > Len(patterns) THEN acc
  ELSE LET matches == FindAllStringSubmatch(patterns[k], line)
       IN  IF Len(matches) > 0 THEN AddMatches(matches, 1, acc)
           ELSE ExtractFromFirstOnly(patterns, k + 1, line, acc)

\* for _, pattern := range ba.patterns { ... }
RECURSIVE ExtractFrom(_, _, _, _)
ExtractFrom(patterns, k, line, acc) ==
  IF k > Len(patterns) THEN acc
  ELSE ExtractFrom(patterns, k + 1, line,
                   AddMatches(FindAllStringSubmatch(patterns[k], line), 1, acc))

ExtractLine(line, acc) == ExtractFrom(GetCompiledPatterns, 1, line, acc)

\* ------------------------------------------------------------------------
\* Files
\* ------------------------------------------------------------------------

\* The content of a file is a sequence of runs, a run being the bytes `unit`
\* written `times` times over; offsets into a file are 0-based.
\* The element of a set of one element: what is computed once and used
\* several times is bound this way.
The(S) == CHOOSE x \in S : TRUE

Run(unit, times) == [unit |-> unit, times |-> times]

RunLen(r) == Len(r.unit) * r.times

RECURSIVE RunStart(_, _)
\* The offset at which run k of f begins.
RunStart(f, k) == IF k <= 1 THEN 0 ELSE RunStart(f, k - 1) + RunLen(f[k - 1])

FileLen(f) == RunStart(f, Len(f) + 1)

\* The run that holds offset i.
RunAt(f, i) ==
  CHOOSE k \in 1..Len(f) : RunStart(f, k) <= i /\ i < RunStart(f, k) + RunLen(f[k])

FileByte(f, i) ==
  The({f[k].unit[((i - RunStart(f, k)) % Len(f[k].unit)) + 1] :
         k \in {RunAt(f, i)}})

\* The n bytes of f from offset a.
FileSlice(f, a, n) ==
  IF n = 0 THEN << >>
  ELSE LET k == RunAt(f, a)
           s == RunStart(f, k)
           p == Len(f[k].unit)
       IN  IF a + n <= s + RunLen(f[k])
             THEN [j \in 1..n |-> f[k].unit[((a - s + j - 1) % p) + 1]]
             ELSE [j \in 1..n |-> FileByte(f, a + j - 1)]

\* The first newline of run r at or after its local offset o, else -1.
RunNewlineFrom(r, o) ==
  LET p == Len(r.unit)
      at == {i \in 0..(p - 1) : r.unit[i + 1] = LF}
      rest == {i \in at : i >= o % p}
  IN  IF at = {} \/ o >= RunLen(r) THEN 0 - 1
      ELSE IF rest # {} THEN (o \div p) * p + Least(rest)
      ELSE IF (o \div p) + 1 < r.times THEN ((o \div p) + 1) * p + Least(at)
      ELSE 0 - 1

RECURSIVE NewlineFrom(_, _, _)
\* The offset of the first newline of f at or after offset a, looking in the
\* runs k.. of f, else -1.
NewlineFrom(f, k, a) ==
  IF k > Len(f) THEN 0 - 1
  ELSE LET s == RunStart(f, k)
           i == RunNewlineFrom(f[k], IF a > s THEN a - s ELSE 0)
       IN  IF i >= 0 THEN s + i ELSE NewlineFrom(f, k + 1, a)

\* ------------------------------------------------------------------------
\* The buffered reader: bufio.Scanner with the split function of ScanBinary
\* ------------------------------------------------------------------------

maxBufferSize == 4 * 1024 * 1024
LineCap == 2000
BreakLow == 1000
BreakMargin == 1000

\* strings.IndexByte(data, '\n') for the data f[a..b): 0-based, -1 when absent.
IndexNewline(f, a, b) ==
  LET i == NewlineFrom(f, 1, a)
  IN  IF i >= 0 /\ i < b THEN i - a ELSE 0 - 1

\* A forced split that cuts nothing off.
BreakPointStuck(f, a) == 0

\* A forced split that always cuts at the cap.
BreakPointAtCap(f, a) == LineCap

\* The break point of a forced split: the last space or tab among the bytes
\* 1000..1999 (0-based) of the data, else 2000; the data is the bytes of f
\* from offset a on.
BreakPoint(f, a) ==
  LET ws == {i \in BreakLow..(LineCap - 1) : FileByte(f, a + i) \in {SPACE, TAB}}
  IN  IF ws # {} THEN CHOOSE i \in ws : \A j \in ws : j <= i ELSE LineCap

NoToken == [advance |-> 0, has |-> FALSE, len |-> 0, err |-> "nil"]

\* A split function that emits a whole line whatever its length.
SplitNoCap(f, a, n, i, atEnd) ==
  IF atEnd /\ n = 0 THEN NoToken
  ELSE IF i >= 0
    THEN [advance |-> i + 1, has |-> TRUE, len |-> i, err |-> "nil"]
  ELSE IF atEnd
    THEN [advance |-> n, has |-> TRUE, len |-> n, err |-> "nil"]
  ELSE IF n > maxBufferSize - BreakMargin
    THEN [advance |-> BreakPoint(f, a), has |-> TRUE,
          len |-> BreakPoint(f, a), err |-> "nil"]
  ELSE NoToken

\* A split function that asks for more data however much it is given.
SplitNoBreak(f, a, n, i, atEnd) ==
  IF atEnd /\ n = 0 THEN NoToken
  ELSE IF i >= 0
    THEN LET c == IF i > LineCap THEN LineCap ELSE i
         IN  [advance |-> c + 1, has |-> TRUE, len |-> c, err |-> "nil"]
  ELSE IF atEnd
    THEN [advance |-> n, has |-> TRUE,
          len |-> IF n > LineCap THEN LineCap ELSE n, err |-> "nil"]
  ELSE NoToken

\* The split function on the data of n bytes that f holds from offset a,
\* whose first newline is at index i (-1: none), atEnd the atEOF argument:
\* the token is the first `len` bytes of the data, has = FALSE models a nil
\* token, err is the error returned.
Split(f, a, n, i, atEnd) ==
  IF atEnd /\ n = 0 THEN NoToken
  ELSE IF i >= 0
    THEN LET c == IF i > LineCap THEN LineCap ELSE i
         IN  [advance |-> c + 1, has |-> TRUE, len |-> c, err |-> "nil"]
  ELSE IF atEnd
    THEN [advance |-> n, has |-> TRUE,
          len |-> IF n > LineCap THEN LineCap ELSE n, err |-> "nil"]
  ELSE IF n > maxBufferSize - BreakMargin
    THEN The({[advance |-> bp, has |-> TRUE, len |-> bp, err |-> "nil"] :
                bp \in {BreakPoint(f, a)}})
  ELSE NoToken

NewScanner == [start |-> 0, end |-> 0, eof |-> FALSE, err |-> "nil"]

NoText == [off |-> 0, len |-> 0]

\* scanner.Text(): the bytes of token t of file f.
Text(f, t) == FileSlice(f, t.off, t.len)

RECURSIVE Scan(_, _)
\* What a call of scanner.Scan() does once the split function has returned
\* r for the buffered data.
ScanWith(s, f, r) ==
  LET haveData == s.end > s.start \/ s.eof
      n == Min(FileLen(f) - s.end, maxBufferSize - (s.end - s.start))
  IN  IF haveData /\ r.err # "nil"
        THEN [sc |-> [s EXCEPT !.err = r.err], ok |-> FALSE, token |-> NoText]
      ELSE IF haveData /\ r.has
        THEN [sc |-> [s EXCEPT !.start = @ + r.advance], ok |-> TRUE,
              token |-> [off |-> s.start, len |-> r.len]]
      ELSE IF haveData /\ r.advance > 0
        THEN Scan([s EXCEPT !.start = @ + r.advance], f)
      ELSE IF s.eof
        THEN [sc |-> [s EXCEPT !.start = s.end], ok |-> FALSE, token |-> NoText]
      ELSE IF s.end - s.start >= maxBufferSize
        THEN [sc |-> [s EXCEPT !.err = "token too long"], ok |-> FALSE, token |-> NoText]
      ELSE IF n = 0
        THEN Scan([s EXCEPT !.eof = TRUE], f)
      ELSE Scan([s EXCEPT !.end = @ + n], f)

\* One call of scanner.Scan() on the file f: s.start and s.end are the file
\* offsets of the buffered data, s.eof says that a read has returned io.EOF
\* or an error.  The token is given by its offset and length.
Scan(called, f) ==
  The({The({ScanWith(s, f, r) :
              r \in {Split(f, s.start, s.end - s.start, i, s.eof) :
                       i \in {IndexNewline(f, s.start, s.end)}}}) :
         s \in {called}})

\* ------------------------------------------------------------------------
\* State
\* ------------------------------------------------------------------------

VARIABLES
  file,          \* the content of the file at the path given to the scan
  disk,          \* whether the file opens, and the error a failing Read returns
  pc,            \* where the scan stands
  sc,            \* the bufio.Scanner of ScanBinary
  lineCount,     \* lineCount of ScanBinary
  candidates,    \* candidates of the running scan
  candidateSet,  \* candidateSet of the running scan
  lineBuffer,    \* lineBuffer of scanBinaryChunked
  cpos,          \* bytes of the file that scanBinaryChunked has consumed
  result,        \* the candidate list the scan returned
  scanErr,       \* the error the scan returned
  extracted      \* history: the lines handed to the pattern loop, in order

scanVars ==
  << file, disk, pc, sc, lineCount, candidates, candidateSet, lineBuffer, cpos, result,
     scanErr, extracted >>

VARIABLES
  registry,      \* the pattern registry (VersionPatterns)
  rpc,           \* where the registry operation stands
  sortArr,       \* patterns, the copy GetPatternsByPriority sorts
  sortI,         \* i of the sort's outer loop
  sortJ,         \* j of the sort's inner loop
  vIdx,          \* patterns ValidateAllPatterns has gone through
  allValid,      \* allValid of ValidateAllPatterns
  output,        \* what validation has printed, in order
  vResult        \* the value ValidateAllPatterns returned

regVars == << registry, rpc, sortArr, sortI, sortJ, vIdx, allValid, output, vResult >>

VARIABLES
  provider,      \* the provider AnalyzeVersions is called on
  argCandidates, \* its candidates argument
  ppc,           \* where the call stands
  requests,      \* chat completion requests sent
  version,       \* the version AnalyzeVersions returned
  perr           \* the error AnalyzeVersions returned

provVars == << provider, argCandidates, ppc, requests, version, perr >>

VARIABLES
  env,           \* what the analyze command finds: the path, the configuration, its flags
  apc,           \* where runAnalyze stands
  exitErr,       \* the error runAnalyze returned
  chooserCalls,  \* calls of AnalyzeWithAI
  saved,         \* result files written
  printed        \* the lines runAnalyze wrote to standard output, in order

cmdVars == << env, apc, exitErr, chooserCalls, saved, printed >>

VARIABLES
  splitData,          \* the data a split function call is given, as a file
  atEOF,         \* its atEOF argument
  split,         \* what the split function returned
  str,           \* the argument of a call of isPrintable
  printable      \* what isPrintable returned

unitVars == << splitData, atEOF, split, str, printable >>

VARIABLES
  flags,         \* the global command-line flags of the invocation
  environ,       \* the environment variables of the process
  config,        \* the AIConfig loaded, which the provider holds
  cpc,           \* where the configuration stands
  cerr,          \* the error the configuration step returned
  console        \* the lines PrintConfigInfo wrote to standard output

cfgVars == << flags, environ, config, cpc, cerr, console >>

VARIABLES
  stdin,         \* the standard input of the interactive session, as a file
  ipos,          \* bytes of stdin the session's scanner has consumed
  ipc,           \* where runInteractiveTest stands
  iret,          \* the error runInteractiveTest returned
  handled        \* history: what the session did with each line it read, in order

replVars == << stdin, ipos, ipc, iret, handled >>

vars == << scanVars, regVars, provVars, cmdVars, unitVars, cfgVars, replVars >>

\* ------------------------------------------------------------------------
\* Files of the model
\* ------------------------------------------------------------------------

MaxLines == 2
MaxTokens == 22
MaxPerLine == 3

LineVocab ==
  << B(<<"v","e","r","s","i","o","n"," ","1",".","2",".","3"," ","v","1",".","0"," ",
         "v","1",".","0">>),
     B(<<"g","l","i","b","c","-","2",".","3","1"," ","a","n","d"," ",
         "l","i","b","s","s","l","-","1",".","1",".","1">>),
     B(<<"b","u","i","l","d"," ","3",".","4"," ","v","e","r","s","i","o","n"," ","1",".","2">>),
     B(<<"v"," ","1","2"," ","v","1","-","r","c"," ",
         "v","1",".","2",".","3",".","4",".","5",".","6",".","7",".","8",".","9",".","1","0","0">>),
     B(<<" "," ">>),
     << 0, 0 >> \o B(<<"v","7",".","7">>) >>

RECURSIVE JoinLines(_, _)
JoinLines(ls, lastNewline) ==
  IF ls = << >> THEN << >>
  ELSE IF Len(ls) = 1 THEN Head(ls) \o (IF lastNewline THEN << LF >> ELSE << >>)
  ELSE Head(ls) \o << LF >> \o JoinLines(Tail(ls), lastNewline)

\* Files of up to MaxLines lines of the vocabulary, the last line with or
\* without its newline.
SmallFiles ==
  { JoinLines([i \in 1..n |-> LineVocab[ix[i]]], nl) :
      <<n, ix, nl>> \in
        UNION { {n} \X [1..n -> 1..Len(LineVocab)] \X BOOLEAN : n \in 0..MaxLines } }

\* ------------------------------------------------------------------------
\* The three parts of the program at rest
\* ------------------------------------------------------------------------

NoResult == << >>

\* A file that opens and whose reads do not fail.
Healthy == [open |-> TRUE, read |-> "nil"]

ScanIdle ==
  /\ file = << >>
  /\ disk = Healthy
  /\ pc = "ready"
  /\ sc = NewScanner
  /\ lineCount = 0
  /\ candidates = << >>
  /\ candidateSet = {}
  /\ lineBuffer = << >>
  /\ cpos = 0
  /\ result = NoResult
  /\ scanErr = "nil"
  /\ extracted = << >>

RegIdle ==
  /\ registry = VersionPatterns
  /\ rpc = "idle"
  /\ sortArr = << >>
  /\ sortI = 0
  /\ sortJ = 0
  /\ vIdx = 0
  /\ allValid = TRUE
  /\ output = << >>
  /\ vResult = TRUE

ProvIdle ==
  /\ provider = "Groq"
  /\ argCandidates = << >>
  /\ ppc = "idle"
  /\ requests = 0
  /\ version = << >>
  /\ perr = "nil"

NoEnv ==
  [exists |-> TRUE, config |-> "ok", save |-> "", format |-> "text", writes |-> TRUE]

CmdIdle ==
  /\ env = NoEnv
  /\ apc = "idle"
  /\ exitErr = "nil"
  /\ chooserCalls = 0
  /\ saved = 0
  /\ printed = << >>

\* No call of the split function or of isPrintable is under way.
UnitIdle ==
  /\ splitData = << >>
  /\ atEOF = FALSE
  /\ split = [called |-> FALSE, out |-> NoToken]
  /\ str = << >>
  /\ printable = [called |-> FALSE, out |-> FALSE]

\* An environment variable that is not set.
Unset == [set |-> FALSE, num |-> FALSE, n |-> 0]

\* No AIConfig: the nil pointer.
NoConfig == [Provider |-> "", APIKey |-> << >>, Model |-> "", Temperature |-> 0,
             MaxTokens |-> 0, BaseURL |-> "", Timeout |-> 0]

\* No command line has been read and no configuration loaded.
CfgIdle ==
  /\ flags = [maxTokens |-> 0 - 1, timeout |-> 0 - 1, showConfig |-> TRUE]
  /\ environ = [AI_PROVIDER |-> "", GROQ_API_KEY |-> << >>, OPENAI_API_KEY |-> << >>,
                AI_MAX_TOKENS |-> Unset, AI_TIMEOUT |-> Unset]
  /\ config = NoConfig
  /\ cpc = "idle"
  /\ cerr = "nil"
  /\ console = << >>

\* No interactive session has been started.
ReplIdle ==
  /\ stdin = << >>
  /\ ipos = 0
  /\ ipc = "idle"
  /\ iret = "nil"
  /\ handled = << >>

\* The k-th token of a dense file: "v<k div 10>.<k mod 10> ".
Token(k) == << Ord("v"), 48 + (k \div 10), Ord("."), 48 + (k % 10), SPACE >>

RECURSIVE TokenRun(_, _)
TokenRun(from, to) == IF from > to THEN << >> ELSE Token(from) \o TokenRun(from + 1, to)

\* t distinct tokens, w to a line, every line ended by a newline.
RECURSIVE DenseFrom(_, _, _)
DenseFrom(k, w, t) ==
  IF k > t THEN << >>
  ELSE TokenRun(k, Min(k + w - 1, t)) \o << LF >> \o DenseFrom(k + w, w, t)

DenseFiles == { DenseFrom(1, w, t) : w \in 1..MaxPerLine, t \in 19..MaxTokens }

\* A file holding the bytes data.
AsFile(data) == IF data = << >> THEN << >> ELSE << Run(data, 1) >>

NonEmptyRun(r) == RunLen(r) > 0

\* The bytes of a file.
Flat(f) == FileSlice(f, 0, FileLen(f))

Files == {AsFile(data) : data \in SmallFiles \cup DenseFiles}

\* ------------------------------------------------------------------------
\* ScanBinary and scanBinaryChunked
\* ------------------------------------------------------------------------

maxLines == 50000
MaxCandidates == 20
SkipLen == 1000
chunkSize == 64 * 1024
maxBytes == 100 * 1024 * 1024

Init ==
  /\ file \in Files
  /\ disk = Healthy
  /\ pc = "ready"
  /\ sc = NewScanner
  /\ lineCount = 0
  /\ candidates = << >>
  /\ candidateSet = {}
  /\ lineBuffer = << >>
  /\ cpos = 0
  /\ result = NoResult
  /\ scanErr = "nil"
  /\ extracted = << >>
  /\ RegIdle
  /\ ProvIdle
  /\ CmdIdle
  /\ UnitIdle
  /\ CfgIdle
  /\ ReplIdle

\* ScanBinary is called: the file is opened and the scanner is set up.
CallScanBinary ==
  /\ pc = "ready"
  /\ sc' = NewScanner
  /\ lineCount' = 0
  /\ candidates' = << >>
  /\ candidateSet' = {}
  /\ IF disk.open
       THEN pc' = "buffered" /\ UNCHANGED << result, scanErr >>
       ELSE pc' = "done" /\ result' = NoResult /\ scanErr' = "error opening file"
  /\ UNCHANGED << file, disk, lineBuffer, cpos, extracted, regVars, provVars, cmdVars, unitVars, cfgVars, replVars >>

\* A Read of the scanner fails with the error of the disk: the scanner keeps
\* the error and hands out what it has buffered as at the end of the input.
ReadFails ==
  /\ pc = "buffered"
  /\ disk.read # "nil"
  /\ ~sc.eof
  /\ sc.end = FileLen(file) \/ sc.end = 0
  /\ sc' = [sc EXCEPT !.eof = TRUE, !.err = disk.read]
  /\ UNCHANGED << file, disk, pc, lineCount, candidates, candidateSet, lineBuffer, cpos,
                  result, scanErr, extracted, regVars, provVars, cmdVars, unitVars, cfgVars, replVars >>

\* The filters of the buffered loop: the line reaches the pattern loop.
Accepted(line) ==
  /\ Len(line) <= SkipLen
  /\ isPrintable(line)
  /\ TrimSpace(line) # << >>

\* The body of the loop of ScanBinary for the token of scan s.
BufferedBody(s) ==
  LET line == Text(file, s.token)
      cur == [candidates |-> candidates, candidateSet |-> candidateSet]
  IN  /\ sc' = s.sc
      /\ lineCount' = lineCount + 1
      /\ IF s.token.len <= SkipLen /\ Accepted(line)
           THEN \E acc \in {ExtractLine(line, cur)} :
                  /\ candidates' = acc.candidates
                  /\ candidateSet' = acc.candidateSet
                  /\ extracted' = Append(extracted, line)
                  /\ pc' = IF Len(acc.candidates) >= MaxCandidates
                             THEN "bufferedExit" ELSE "buffered"
           ELSE /\ UNCHANGED << candidates, candidateSet, extracted >>
                /\ pc' = "buffered"

\* A loop of ScanBinary that counts its lines without a cap.
UnderCapAlways(n) == TRUE

\* The second operand of the loop condition of ScanBinary.
UnderCap(n) == n < maxLines

\* One iteration of the loop of ScanBinary.
BufferedLine ==
  /\ pc = "buffered"
  /\ \E s \in {Scan(sc, file)} :
       /\ s.ok
       /\ UnderCap(lineCount)
       /\ BufferedBody(s)
  /\ UNCHANGED << file, disk, lineBuffer, cpos, result, scanErr, regVars, provVars, cmdVars, unitVars, cfgVars, replVars >>

\* strings.Contains(err.Error(), "token too long") never holding.
ContainsTooLongNever(err) == FALSE

\* strings.Contains(err.Error(), "token too long"): bufio.ErrTooLong, and the
\* error of a Read on a file whose path holds these words.
ContainsTooLong(err) ==
  err \in {"token too long", "read /tmp/token too long: input/output error"}

\* The loop of ScanBinary has ended (its condition is false, or the early
\* exit was taken): the scanner's error decides what is returned.
BufferedReturn ==
  /\ pc \in {"buffered", "bufferedExit"}
  /\ \E s \in {IF pc = "buffered" THEN Scan(sc, file)
                ELSE [sc |-> sc, ok |-> TRUE, token |-> NoText]} :
       /\ pc = "buffered" => ~(s.ok /\ UnderCap(lineCount))
       /\ sc' = s.sc
       /\ IF s.sc.err = "nil"
            THEN /\ pc' = "done"
                 /\ result' = candidates
                 /\ scanErr' = "nil"
                 /\ UNCHANGED << candidates, candidateSet >>
                 /\ UNCHANGED << lineBuffer, cpos, extracted >>
          ELSE IF ContainsTooLong(s.sc.err)
            THEN /\ pc' = "chunked"
                 /\ candidates' = << >>
                 /\ candidateSet' = {}
                 /\ lineBuffer' = << >>
                 /\ cpos' = 0
                 /\ extracted' = << >>
                 /\ UNCHANGED << result, scanErr >>
          ELSE /\ pc' = "done"
               /\ result' = NoResult
               /\ scanErr' = "error scanning file"
               /\ UNCHANGED << candidates, candidateSet, lineBuffer, cpos, extracted >>
  /\ UNCHANGED << file, disk, lineCount, regVars, provVars, cmdVars, unitVars, cfgVars, replVars >>

\* scanBinaryChunked is called on the file.
CallScanBinaryChunked ==
  /\ pc = "ready"
  /\ candidates' = << >>
  /\ candidateSet' = {}
  /\ lineBuffer' = << >>
  /\ cpos' = 0
  /\ IF disk.open
       THEN pc' = "chunked" /\ UNCHANGED << result, scanErr >>
       ELSE pc' = "done" /\ result' = NoResult /\ scanErr' = "error opening file"
  /\ UNCHANGED << file, disk, sc, lineCount, extracted, regVars, provVars, cmdVars, unitVars, cfgVars, replVars >>

\* The first Read of scanBinaryChunked fails (n = 0): the loop is left,
\* nothing remains in the line buffer and the empty list is returned.
ChunkedReadFails ==
  /\ pc = "chunked"
  /\ disk.read # "nil"
  /\ cpos = 0
  /\ pc' = "done"
  /\ result' = candidates
  /\ scanErr' = "nil"
  /\ UNCHANGED << file, disk, sc, lineCount, candidates, candidateSet, lineBuffer, cpos,
                  extracted, regVars, provVars, cmdVars, unitVars, cfgVars, replVars >>

\* The bytes the chunk loop reads: whole chunks while processedBytes < maxBytes.
Readable(f) ==
  Min(FileLen(f), ((maxBytes + chunkSize - 1) \div chunkSize) * chunkSize)

\* One pass of the byte loop of scanBinaryChunked on byte b, from the state
\* st = [flush, pos, line] of the loop: a newline, or a buffer of more than
\* 1000 bytes, flushes the buffer and the byte is dropped.
FlushByte(b, st) ==
  IF b = LF \/ Len(st.line) > SkipLen
    THEN [flush |-> TRUE, pos |-> st.pos + 1, line |-> st.line]
  ELSE IF b >= 32 /\ b <= 126
    THEN [flush |-> FALSE, pos |-> st.pos + 1, line |-> Append(st.line, b)]
  ELSE [flush |-> FALSE, pos |-> st.pos + 1, line |-> st.line]

\* The byte loop over the offsets lo..hi-1 of f, stopping at a flush.
RECURSIVE FlushRange(_, _, _, _)
FlushRange(f, lo, hi, st) ==
  IF st.flush \/ lo >= hi THEN st
  ELSE IF hi = lo + 1 THEN FlushByte(FileByte(f, lo), st)
  ELSE LET mid == (lo + hi) \div 2
           left == FlushRange(f, lo, mid, st)
       IN  FlushRange(f, mid, hi, left)

\* The byte loop of scanBinaryChunked from offset pos with line buffer lb, up
\* to the next flush or to the end of the data.
NextFlush(f, pos, lb) ==
  FlushRange(f, pos, Readable(f), [flush |-> FALSE, pos |-> pos, line |-> lb])

ChunkAccepted(line) == Len(line) > 0 /\ Len(line) <= SkipLen /\ isPrintable(line)

\* The pattern loop of scanBinaryChunked on a line that passed its test.
ChunkExtract(line, take) ==
  IF take
    THEN ExtractLine(line, [candidates |-> candidates, candidateSet |-> candidateSet])
    ELSE [candidates |-> candidates, candidateSet |-> candidateSet]

\* The bytes up to a flush are consumed and the flushed line is processed.
ChunkedFlush ==
  /\ pc = "chunked"
  /\ \E n \in {NextFlush(file, cpos, lineBuffer)} :
       /\ n.flush
       /\ cpos' = n.pos
       /\ lineBuffer' = << >>
       /\ \E acc \in {ChunkExtract(n.line, ChunkAccepted(n.line))} :
            /\ candidates' = acc.candidates
            /\ candidateSet' = acc.candidateSet
            /\ IF Len(acc.candidates) >= MaxCandidates
                 THEN pc' = "done" /\ result' = acc.candidates
                 ELSE pc' = "chunked" /\ result' = result
       /\ extracted' = IF ChunkAccepted(n.line) THEN Append(extracted, n.line)
                       ELSE extracted
  /\ UNCHANGED << file, disk, sc, lineCount, scanErr, regVars, provVars, cmdVars, unitVars, cfgVars, replVars >>

\* The data is exhausted: the remaining line is processed and the list returned.
ChunkedReturn ==
  /\ pc = "chunked"
  /\ \E n \in {NextFlush(file, cpos, lineBuffer)} :
       /\ ~n.flush
       /\ cpos' = n.pos
       /\ lineBuffer' = n.line
       /\ \E acc \in {ChunkExtract(n.line, Len(n.line) > 0 /\ isPrintable(n.line))} :
            /\ candidates' = acc.candidates
            /\ candidateSet' = acc.candidateSet
            /\ result' = acc.candidates
       /\ extracted' = IF Len(n.line) > 0 /\ isPrintable(n.line)
                         THEN Append(extracted, n.line) ELSE extracted
       /\ pc' = "done"
  /\ UNCHANGED << file, disk, sc, lineCount, scanErr, regVars, provVars, cmdVars, unitVars, cfgVars, replVars >>

Next ==
  \/ CallScanBinary
  \/ BufferedLine
  \/ BufferedReturn
  \/ CallScanBinaryChunked
  \/ ChunkedFlush
  \/ ChunkedReturn

Spec == Init /\ [][Next]_vars

\* ------------------------------------------------------------------------
\* ScanBinary on files that do not open or whose reads fail
\* ------------------------------------------------------------------------

ReadErrors ==
  {"nil", "read /tmp/a.out: input/output error",
   "read /tmp/token too long: input/output error"}

Disks == [open : BOOLEAN, read : ReadErrors]

FaultFiles ==
  {AsFile(JoinLines([i \in 1..n |-> LineVocab[ix[i]]], TRUE)) :
     <<n, ix>> \in UNION { {n} \X [1..n -> {1, 5, 6}] : n \in 0..MaxLines } }

FaultInit ==
  /\ file \in FaultFiles
  /\ disk \in Disks
  /\ pc = "ready"
  /\ sc = NewScanner
  /\ lineCount = 0
  /\ candidates = << >>
  /\ candidateSet = {}
  /\ lineBuffer = << >>
  /\ cpos = 0
  /\ result = NoResult
  /\ scanErr = "nil"
  /\ extracted = << >>
  /\ RegIdle
  /\ ProvIdle
  /\ CmdIdle
  /\ UnitIdle
  /\ CfgIdle
  /\ ReplIdle

FaultNext ==
  \/ CallScanBinary
  \/ ReadFails
  \/ BufferedLine
  \/ BufferedReturn
  \/ ChunkedReadFails
  \/ ChunkedFlush
  \/ ChunkedReturn

FaultSpec == FaultInit /\ [][FaultNext]_vars


\* ------------------------------------------------------------------------
\* The registry operations: GetPatternsByPriority and pattern validation
\* ------------------------------------------------------------------------

PerturbPatterns == 2
PerturbExamples == 2

\* Pattern p with the self-test entries S damaged: an odd entry gets a wrong
\* Expected string, an even entry an Example that the pattern cannot match.
Damaged(p, S) ==
  [p EXCEPT
     !.Expected = [i \in 1..Len(p.Expected) |->
                     IF i \in S /\ i % 2 = 1 THEN Append(p.Expected[i], Ord("0"))
                     ELSE p.Expected[i]],
     !.Examples = [i \in 1..Len(p.Examples) |->
                     IF i \in S /\ i % 2 = 0 THEN << >> ELSE p.Examples[i]]]

\* The registries of the model: VersionPatterns as shipped, and with some of
\* the first self-test entries of its first patterns damaged.
Registries ==
  { [k \in 1..Len(VersionPatterns) |->
       IF k <= PerturbPatterns THEN Damaged(VersionPatterns[k], d[k])
       ELSE VersionPatterns[k]] :
    d \in [1..PerturbPatterns -> SUBSET (1..PerturbExamples)] }

\* ValidatePattern from example i on: the verdict and what is printed.
RECURSIVE ValidateFrom(_, _)
ValidateFrom(pattern, i) ==
  IF i > Len(pattern.Examples) THEN [ok |-> TRUE, out |-> << >>]
  ELSE LET matches == FindStringSubmatch(pattern.Pattern, pattern.Examples[i])
       IN  IF Len(matches) < 2
             THEN [ok |-> FALSE,
                   out |-> << [kind |-> "failed to match", pattern |-> pattern.Name,
                               example |-> i] >>]
           ELSE IF i <= Len(pattern.Expected) /\ matches[2] # pattern.Expected[i]
             THEN [ok |-> FALSE,
                   out |-> << [kind |-> "extracted but expected", pattern |-> pattern.Name,
                               example |-> i] >>]
           ELSE ValidateFrom(pattern, i + 1)

ValidatePattern(pattern) == ValidateFrom(pattern, 1)

RegInit ==
  /\ registry \in Registries
  /\ rpc = "idle"
  /\ sortArr = << >>
  /\ sortI = 0
  /\ sortJ = 0
  /\ vIdx = 0
  /\ allValid = TRUE
  /\ output = << >>
  /\ vResult = TRUE
  /\ ScanIdle
  /\ ProvIdle
  /\ CmdIdle
  /\ UnitIdle
  /\ CfgIdle
  /\ ReplIdle

\* GetPatternsByPriority is called: the registry is copied.
CallGetPatternsByPriority ==
  /\ rpc = "idle"
  /\ rpc' = "sorting"
  /\ sortArr' = registry
  /\ sortI' = 0
  /\ sortJ' = 1
  /\ UNCHANGED << registry, vIdx, allValid, output, vResult, scanVars, provVars, cmdVars, unitVars, cfgVars, replVars >>

\* patterns[i], patterns[j] = patterns[j], patterns[i]  (0-based i, j)
Swap(arr, a, b) == [arr EXCEPT ![a + 1] = arr[b + 1], ![b + 1] = arr[a + 1]]

\* One pass of the inner loop body: compare, swap, advance j (and i).
SortCompare ==
  /\ rpc = "sorting"
  /\ sortI < Len(sortArr) - 1
  /\ sortArr' = IF sortArr[sortI + 1].Priority > sortArr[sortJ + 1].Priority
                  THEN Swap(sortArr, sortI, sortJ) ELSE sortArr
  /\ IF sortJ + 1 < Len(sortArr)
       THEN sortJ' = sortJ + 1 /\ sortI' = sortI
       ELSE sortI' = sortI + 1 /\ sortJ' = sortI + 2
  /\ UNCHANGED << registry, rpc, vIdx, allValid, output, vResult, scanVars, provVars, cmdVars, unitVars, cfgVars, replVars >>

\* The outer loop has ended: the sorted copy is returned.
SortReturn ==
  /\ rpc = "sorting"
  /\ sortI >= Len(sortArr) - 1
  /\ rpc' = "sorted"
  /\ UNCHANGED << registry, sortArr, sortI, sortJ, vIdx, allValid, output, vResult,
                  scanVars, provVars, cmdVars, unitVars, cfgVars, replVars >>

\* ValidateAllPatterns is called.
CallValidateAllPatterns ==
  /\ rpc = "idle"
  /\ rpc' = "validating"
  /\ vIdx' = 0
  /\ allValid' = TRUE
  /\ output' = << >>
  /\ UNCHANGED << registry, sortArr, sortI, sortJ, vResult, scanVars, provVars, cmdVars, unitVars, cfgVars, replVars >>

\* One iteration of the loop of ValidateAllPatterns.
ValidateNext ==
  /\ rpc = "validating"
  /\ vIdx < Len(registry)
  /\ \E r \in {ValidatePattern(registry[vIdx + 1])} :
       /\ allValid' = IF r.ok THEN allValid ELSE FALSE
       /\ output' = output \o r.out \o
                      (IF r.ok THEN << [kind |-> "validated successfully",
                                        pattern |-> registry[vIdx + 1].Name,
                                        example |-> 0] >>
                       ELSE << >>)
  /\ vIdx' = vIdx + 1
  /\ UNCHANGED << registry, rpc, sortArr, sortI, sortJ, vResult, scanVars, provVars, cmdVars, unitVars, cfgVars, replVars >>

\* The loop has ended: the summary is printed and allValid returned.
ValidateReturn ==
  /\ rpc = "validating"
  /\ vIdx >= Len(registry)
  /\ rpc' = "validated"
  /\ vResult' = allValid
  /\ UNCHANGED << registry, sortArr, sortI, sortJ, vIdx, allValid, output, scanVars,
                  provVars, cmdVars, unitVars, cfgVars, replVars >>

RegNext ==
  \/ CallGetPatternsByPriority
  \/ SortCompare
  \/ SortReturn
  \/ CallValidateAllPatterns
  \/ ValidateNext
  \/ ValidateReturn

RegistrySpec == RegInit /\ [][RegNext]_vars

\* ------------------------------------------------------------------------
\* The version chooser: AnalyzeVersions of the Groq and OpenAI providers
\* ------------------------------------------------------------------------

MaxArgs == 2

Providers == {"Groq", "OpenAI"}

\* The candidate lists handed to AnalyzeVersions in the model.
ArgVersions == {B(<<"1",".","2",".","3">>), B(<<"2",".","3","1">>)}
ArgLists == UNION {[1..n -> ArgVersions] : n \in 0..MaxArgs}

\* Message contents the remote service may put in its first choice.
ReplyContents(cands) ==
  UNION {{c,
          << SPACE >> \o c \o << LF >>,
          B(<<"T","h","e"," ","v","e","r","s","i","o","n"," ","i","s"," ">>) \o c}
         : c \in {cands[i] : i \in 1..Len(cands)}}
    \cup {B(<<"9",".","9",".","9">>), << >>}

\* The start of AnalyzeVersions without its guard.
AnalyzeVersionsNoGuard(cands) == [returns |-> FALSE, version |-> << >>, err |-> "nil"]

\* The start of AnalyzeVersions: the guard on an empty candidate list.
AnalyzeVersionsGuard(cands) ==
  IF Len(cands) = 0
    THEN [returns |-> TRUE, version |-> << >>, err |-> "no version candidates provided"]
    ELSE [returns |-> FALSE, version |-> << >>, err |-> "nil"]

ProvInit ==
  /\ provider \in Providers
  /\ argCandidates \in ArgLists
  /\ ppc = "idle"
  /\ requests = 0
  /\ version = << >>
  /\ perr = "nil"
  /\ ScanIdle
  /\ RegIdle
  /\ CmdIdle
  /\ UnitIdle
  /\ CfgIdle
  /\ ReplIdle

\* AnalyzeVersions is called: it returns at once on an empty list, and
\* otherwise builds the prompt and sends the chat completion request.
CallAnalyzeVersions ==
  /\ ppc = "idle"
  /\ LET g == AnalyzeVersionsGuard(argCandidates)
     IN  IF g.returns
           THEN /\ ppc' = "returned"
                /\ version' = g.version
                /\ perr' = g.err
                /\ requests' = requests
           ELSE /\ ppc' = "requesting"
                /\ requests' = requests + 1
                /\ UNCHANGED << version, perr >>
  /\ UNCHANGED << provider, argCandidates, scanVars, regVars, cmdVars, unitVars, cfgVars, replVars >>

\* The request fails: transport error or timeout; for Groq also a status
\* other than 200 or a body that does not decode.
RequestFails ==
  /\ ppc = "requesting"
  /\ \E e \in IF provider = "Groq"
                THEN {"error making request", "API request failed with status",
                      "error decoding response"}
                ELSE {"error calling OpenAI API"} :
       perr' = e
  /\ version' = << >>
  /\ ppc' = "returned"
  /\ UNCHANGED << provider, argCandidates, requests, scanVars, regVars, cmdVars, unitVars, cfgVars, replVars >>

\* The response holds no choice.
ReplyNoChoices ==
  /\ ppc = "requesting"
  /\ perr' = IF provider = "Groq" THEN "no response from Groq API"
             ELSE "no response from OpenAI API"
  /\ version' = << >>
  /\ ppc' = "returned"
  /\ UNCHANGED << provider, argCandidates, requests, scanVars, regVars, cmdVars, unitVars, cfgVars, replVars >>

\* The response holds a choice: its content, trimmed, is returned.
ReplyChoice ==
  /\ ppc = "requesting"
  /\ \E content \in ReplyContents(argCandidates) :
       version' = TrimSpace(content)
  /\ perr' = "nil"
  /\ ppc' = "returned"
  /\ UNCHANGED << provider, argCandidates, requests, scanVars, regVars, cmdVars, unitVars, cfgVars, replVars >>

ProvNext ==
  \/ CallAnalyzeVersions
  \/ RequestFails
  \/ ReplyNoChoices
  \/ ReplyChoice

ProviderSpec == ProvInit /\ [][ProvNext]_vars

\* ------------------------------------------------------------------------
\* The analyze command: runAnalyze and outputResult
\* ------------------------------------------------------------------------

\* What an invocation may find: whether the path exists, how loading the
\* configuration and creating the provider end, the --save and --output
\* flags, and whether the result file can be written.
Envs ==
  [exists : BOOLEAN,
   config : {"ok", "load error", "provider error"},
   save : {"", "result.out"},
   format : {"text", "json", "yaml", "xml"},
   writes : BOOLEAN]

AnalyzeFiles ==
  {AsFile(JoinLines([i \in 1..n |-> LineVocab[ix[i]]], TRUE)) :
     <<n, ix>> \in UNION { {n} \X [1..n -> {3, 5}] : n \in 0..MaxLines } }

AnalyzeInit ==
  /\ file \in AnalyzeFiles
  /\ env \in {e \in Envs : (e.save = "" => e.format = "text" /\ e.writes)}
  /\ disk \in {d \in Disks : env.exists \/ ~d.open}
  /\ pc = "uncalled"
  /\ sc = NewScanner
  /\ lineCount = 0
  /\ candidates = << >>
  /\ candidateSet = {}
  /\ lineBuffer = << >>
  /\ cpos = 0
  /\ result = NoResult
  /\ scanErr = "nil"
  /\ extracted = << >>
  /\ RegIdle
  /\ provider \in Providers
  /\ argCandidates = << >>
  /\ ppc = "uncalled"
  /\ requests = 0
  /\ version = << >>
  /\ perr = "nil"
  /\ apc = "start"
  /\ exitErr = "nil"
  /\ chooserCalls = 0
  /\ saved = 0
  /\ printed = << >>
  /\ UnitIdle
  /\ CfgIdle
  /\ ReplIdle

\* runAnalyze up to its call of ScanBinary: the path is looked up, the
\* configuration loaded, the provider and the analyzer created.
RunAnalyze ==
  /\ apc = "start"
  /\ IF ~env.exists
       THEN /\ apc' = "exit"
            /\ exitErr' = "Error: File does not exist"
            /\ UNCHANGED << pc, printed >>
     ELSE IF env.config = "load error"
       THEN /\ apc' = "exit"
            /\ exitErr' = "Error loading configuration"
            /\ UNCHANGED << pc, printed >>
     ELSE IF env.config = "provider error"
       THEN /\ apc' = "exit"
            /\ exitErr' = "Error creating AI provider"
            /\ UNCHANGED << pc, printed >>
     ELSE /\ apc' = "scanning"
          /\ pc' = "ready"
          /\ printed' = printed \o << "Analyzing binary", "Scanning for version candidates..." >>
          /\ UNCHANGED exitErr
  /\ UNCHANGED << file, disk, sc, lineCount, candidates, candidateSet, lineBuffer, cpos,
                  result, scanErr, extracted, regVars, provVars, env, chooserCalls, saved,
                  unitVars, cfgVars, replVars >>

\* A runAnalyze that hands every list without error to the chooser.
AfterScanAnyList(err, cands) ==
  IF err # "nil" THEN "scan error" ELSE "choose"

\* A runAnalyze that does not look at the error of the scan.
AfterScanAnyError(err, cands) ==
  IF Len(cands) = 0 THEN "no candidates" ELSE "choose"

\* What runAnalyze does with what ScanBinary returned.
AfterScan(err, cands) ==
  IF err # "nil" THEN "scan error"
  ELSE IF Len(cands) = 0 THEN "no candidates"
  ELSE "choose"

\* ScanBinary has returned: runAnalyze ends with the scan's error, or ends
\* with the "no candidates" message, or lists the candidates and calls
\* AnalyzeWithAI, which calls AnalyzeVersions of the provider.
ScanReturned ==
  /\ apc = "scanning"
  /\ pc = "done"
  /\ LET next == AfterScan(scanErr, result)
     IN  IF next = "scan error"
           THEN /\ apc' = "exit"
                /\ exitErr' = "Error scanning binary"
                /\ UNCHANGED << printed, chooserCalls, argCandidates, ppc >>
         ELSE IF next = "no candidates"
           THEN /\ apc' = "exit"
                /\ exitErr' = "nil"
                /\ printed' = Append(printed, "No version candidates found in the binary.")
                /\ UNCHANGED << chooserCalls, argCandidates, ppc >>
         ELSE /\ apc' = "choosing"
              /\ printed' = printed \o << "Found potential version candidates", "Analyzing with AI..." >>
              /\ chooserCalls' = chooserCalls + 1
              /\ argCandidates' = result
              /\ ppc' = "idle"
              /\ UNCHANGED exitErr
  /\ UNCHANGED << scanVars, regVars, provider, requests, version, perr, env, saved,
                  unitVars, cfgVars, replVars >>

\* outputResult: the error it returns and the files it has written.
outputResult(format, saveFile, writes) ==
  IF saveFile = "" THEN [err |-> "nil", written |-> 0]
  ELSE IF format \in {"json", "yaml", "text"}
    THEN IF writes THEN [err |-> "nil", written |-> 1]
         ELSE [err |-> "error writing file", written |-> 0]
  ELSE [err |-> "unsupported output format", written |-> 0]

\* AnalyzeWithAI has returned: runAnalyze ends with the chooser's error, or
\* builds the result, saves it as asked and prints the version.
ChooserReturned ==
  /\ apc = "choosing"
  /\ ppc = "returned"
  /\ apc' = "exit"
  /\ IF perr # "nil"
       THEN /\ exitErr' = "Error analyzing with AI"
            /\ UNCHANGED << saved, printed >>
       ELSE LET out == outputResult(env.format, env.save, env.writes)
            IN  /\ saved' = saved + out.written
                /\ IF out.err # "nil"
                     THEN exitErr' = "Error outputting result" /\ UNCHANGED printed
                     ELSE /\ exitErr' = "nil"
                          /\ printed' = Append(printed, "Most likely version")
  /\ UNCHANGED << scanVars, regVars, provVars, env, chooserCalls, unitVars, cfgVars, replVars >>

AnalyzeNext ==
  \/ RunAnalyze
  \/ CallScanBinary
  \/ ReadFails
  \/ BufferedLine
  \/ BufferedReturn
  \/ ChunkedReadFails
  \/ ChunkedFlush
  \/ ChunkedReturn
  \/ ScanReturned
  \/ CallAnalyzeVersions
  \/ RequestFails
  \/ ReplyNoChoices
  \/ ReplyChoice
  \/ ChooserReturned

AnalyzeSpec == AnalyzeInit /\ [][AnalyzeNext]_vars

\* ------------------------------------------------------------------------
\* Scans of long files
\* ------------------------------------------------------------------------

\* n bytes b.
Fill(b, n) == [i \in 1..n |-> b]

\* The length of the longest single line scanned: 10 MB.
LongLineLen == 10485760

VersionLine == LineVocab[3] \o << LF >>

\* Files of more lines than the loop of ScanBinary examines, of lines the
\* filters skip, of one line without a newline, and of more candidates than
\* are collected.
LongFiles ==
  { << Run(Fill(Ord("a"), SkipLen + 1) \o << LF >>, maxLines \div 2),
       Run(<< 0, 0, Ord("v"), LF >>, maxLines \div 4),
       Run(<< SPACE, LF >>, maxLines \div 4),
       Run(VersionLine, 1) >>,
    << Run(<< LF >>, maxLines - 1), Run(VersionLine, 1), Run(LineVocab[1], 1) >>,
    << Run(<< Ord("a") >>, LongLineLen) >>,
    AsFile(DenseFrom(1, MaxPerLine, MaxTokens)) }

LongInit ==
  /\ file \in LongFiles
  /\ disk = Healthy
  /\ pc = "ready"
  /\ sc = NewScanner
  /\ lineCount = 0
  /\ candidates = << >>
  /\ candidateSet = {}
  /\ lineBuffer = << >>
  /\ cpos = 0
  /\ result = NoResult
  /\ scanErr = "nil"
  /\ extracted = << >>
  /\ RegIdle
  /\ ProvIdle
  /\ CmdIdle
  /\ UnitIdle
  /\ CfgIdle
  /\ ReplIdle

\* The iterations of the loop of ScanBinary that one step of a long scan
\* runs.
BlockLines == 500

\* One evaluation of the loop condition of ScanBinary, s being what the
\* call of Scan returned, and, where the condition holds, of the loop body,
\* on the loop's variables st; st.more says that the loop has not ended.
LoopBodyWith(st, f, s) ==
  IF ~(s.ok /\ UnderCap(st.lineCount))
    THEN [st EXCEPT !.more = FALSE]
  ELSE IF s.token.len > SkipLen
    THEN [st EXCEPT !.sc = s.sc, !.lineCount = @ + 1]
  ELSE The({IF Accepted(line)
              THEN The({[sc |-> s.sc,
                         lineCount |-> st.lineCount + 1,
                         candidates |-> acc.candidates,
                         candidateSet |-> acc.candidateSet,
                         extracted |-> Append(st.extracted, line),
                         more |-> Len(acc.candidates) < MaxCandidates,
                         pc |-> IF Len(acc.candidates) >= MaxCandidates
                                  THEN "bufferedExit" ELSE "buffered"] :
                          acc \in {ExtractLine(line,
                                     [candidates |-> st.candidates,
                                      candidateSet |-> st.candidateSet])}})
              ELSE [st EXCEPT !.sc = s.sc, !.lineCount = @ + 1] :
            line \in {Text(f, s.token)}})

LoopBody(st, f) == The({LoopBodyWith(st, f, s) : s \in {Scan(st.sc, f)}})

\* Up to n iterations of the loop from st.
RECURSIVE LoopRange(_, _, _)
LoopRange(st, n, f) ==
  IF n = 0 \/ ~st.more THEN st
  ELSE IF n = 1 THEN LoopBody(st, f)
  ELSE The({LoopRange(left, n - n \div 2, f) :
              left \in {LoopRange(st, n \div 2, f)}})

\* The loop's variables when ScanBinary enters the loop.
LoopStart ==
  [sc |-> NewScanner, lineCount |-> 0, candidates |-> << >>,
   candidateSet |-> {}, extracted |-> << >>, more |-> TRUE, pc |-> "buffered"]

\* The loop's variables at the start of a block that begins where the block
\* that ended in st stopped.
Resume(st) == [st EXCEPT !.more = TRUE]

\* The loop's variables after each block of the loop on f, from st on, up
\* to the block in which no iteration runs.
RECURSIVE BlocksFrom(_, _)
BlocksFrom(st, f) ==
  LET next == LoopRange(Resume(st), BlockLines, f)
  IN  IF st.pc = "buffered" /\ next.lineCount > st.lineCount
        THEN << st >> \o BlocksFrom(next, f)
        ELSE << st >>

\* The files of the long scans whose lines reach the pattern loop.
Extracting == {AsFile(DenseFrom(1, MaxPerLine, MaxTokens))}

\* The blocks of the scan of each of these files, computed once.
Blocks == [f \in Extracting |-> BlocksFrom(LoopStart, f)]

\* LoopRange(st, BlockLines, f), taken from Blocks where it is there.
Block(st, f) ==
  IF f \in DOMAIN Blocks /\ \E i \in 1..(Len(Blocks[f]) - 1) : Resume(Blocks[f][i]) = st
    THEN Blocks[f][1 + CHOOSE i \in 1..(Len(Blocks[f]) - 1) : Resume(Blocks[f][i]) = st]
    ELSE LoopRange(st, BlockLines, f)

\* The next iterations of the loop of ScanBinary, at least one and at most
\* BlockLines.
BufferedBlock ==
  /\ pc = "buffered"
  /\ \E st \in {Block([sc |-> sc, lineCount |-> lineCount,
                        candidates |-> candidates,
                        candidateSet |-> candidateSet,
                        extracted |-> extracted,
                        more |-> TRUE, pc |-> pc], file)} :
       /\ st.lineCount > lineCount
       /\ sc' = st.sc
       /\ lineCount' = st.lineCount
       /\ candidates' = st.candidates
       /\ candidateSet' = st.candidateSet
       /\ extracted' = st.extracted
       /\ pc' = st.pc
  /\ UNCHANGED << file, disk, lineBuffer, cpos, result, scanErr, regVars, provVars, cmdVars, unitVars, cfgVars, replVars >>

LongNext ==
  \/ CallScanBinary
  \/ BufferedBlock
  \/ BufferedReturn

LongSpec == LongInit /\ [][LongNext]_vars

\* Files whose scan ends at the cap on the candidates, at the cap on the
\* lines and, for the line of LongLineLen bytes, at the end of the file.
FairFiles ==
  Extracting \cup
  { << Run(<< LF >>, maxLines), Run(VersionLine, 1) >>,
    << Run(<< Ord("a") >>, LongLineLen) >> }

FairInit ==
  /\ file \in FairFiles
  /\ disk = Healthy
  /\ pc = "ready"
  /\ sc = NewScanner
  /\ lineCount = 0
  /\ candidates = << >>
  /\ candidateSet = {}
  /\ lineBuffer = << >>
  /\ cpos = 0
  /\ result = NoResult
  /\ scanErr = "nil"
  /\ extracted = << >>
  /\ RegIdle
  /\ ProvIdle
  /\ CmdIdle
  /\ UnitIdle
  /\ CfgIdle
  /\ ReplIdle

\* ScanBinary is sequential code that runs on: a step that can be taken is
\* taken.
LongFairSpec == FairInit /\ [][LongNext]_vars /\ WF_vars(LongNext)

\* ------------------------------------------------------------------------
\* Scans of files whose lines are about as long as the length limits
\* ------------------------------------------------------------------------

\* How far the line lengths lie from a limit.
EdgeSlack == 1

\* The line `text` padded with byte b to n bytes, with a newline or without.
Padded(text, b, n, newline) ==
  << Run(text, 1), Run(<< b >>, n - Len(text)) >>
    \o (IF newline THEN << Run(<< LF >>, 1) >> ELSE << >>)

EdgeFiles ==
  {Padded(LineVocab[3], b, n, nl) :
     b \in {Ord("a"), Ord("-")},
     n \in (SkipLen - EdgeSlack)..(SkipLen + EdgeSlack)
            \cup (LineCap - EdgeSlack)..(LineCap + EdgeSlack),
     nl \in BOOLEAN}

\* A line of 2k bytes and its newline: `text` padded with letters to k
\* bytes, and k NUL bytes before or behind it.
HalfNull(text, k, nulFirst) ==
  LET half == << Run(text, 1), Run(<< Ord("a") >>, k - Len(text)) >>
      nuls == << Run(<< 0 >>, k) >>
  IN  SelectSeq(IF nulFirst THEN nuls \o half ELSE half \o nuls, NonEmptyRun)
        \o << Run(<< LF >>, 1) >>

HalfNullFiles ==
  {HalfNull(LineVocab[3], k, nf) :
     k \in {Len(LineVocab[3])}
            \cup (PrintableSample - EdgeSlack)..(PrintableSample + EdgeSlack),
     nf \in BOOLEAN}

EdgeInit ==
  /\ file \in EdgeFiles \cup HalfNullFiles
  /\ disk = Healthy
  /\ pc = "ready"
  /\ sc = NewScanner
  /\ lineCount = 0
  /\ candidates = << >>
  /\ candidateSet = {}
  /\ lineBuffer = << >>
  /\ cpos = 0
  /\ result = NoResult
  /\ scanErr = "nil"
  /\ extracted = << >>
  /\ RegIdle
  /\ ProvIdle
  /\ CmdIdle
  /\ UnitIdle
  /\ CfgIdle
  /\ ReplIdle

EdgeNext ==
  \/ CallScanBinary
  \/ BufferedLine
  \/ BufferedReturn
  \/ CallScanBinaryChunked
  \/ ChunkedFlush
  \/ ChunkedReturn

EdgeSpec == EdgeInit /\ [][EdgeNext]_vars

\* ------------------------------------------------------------------------
\* The split function called on its own
\* ------------------------------------------------------------------------

\* How far the marked bytes and the data lengths lie from the limits.
SplitSlack == 1

Around(n) == (n - SplitSlack)..(n + SplitSlack)

\* The 0-based indices of the marked bytes.
MarkAt == {0} \cup Around(BreakLow) \cup Around(LineCap)

\* The lengths of the data beyond its last marked byte.
TailLens ==
  {0, SplitSlack} \cup Around(LineCap)
    \cup Around(maxBufferSize - BreakMargin - LineCap) \cup {maxBufferSize - LineCap}

Marks == {Ord("a"), SPACE, TAB, LF}

\* Data of bytes 'a' with the bytes m1 and m2 at the indices p1 < p2 and t
\* more bytes after them.
Marked(p1, m1, p2, m2, t) ==
  SelectSeq(<< Run(<< Ord("a") >>, p1), Run(<< m1 >>, 1),
               Run(<< Ord("a") >>, p2 - p1 - 1), Run(<< m2 >>, 1),
               Run(<< Ord("a") >>, t) >>, NonEmptyRun)

SplitData ==
  {<< >>} \cup
  {Marked(p[1], m1, p[2], m2, t) :
     p \in {q \in MarkAt \X MarkAt : q[1] < q[2]},
     m1 \in Marks, m2 \in Marks, t \in TailLens}

SplitInit ==
  /\ splitData \in {d \in SplitData : FileLen(d) <= maxBufferSize}
  /\ atEOF \in {e \in BOOLEAN : splitData = << >> => e}
  /\ split = [called |-> FALSE, out |-> NoToken]
  /\ str = << >>
  /\ printable = [called |-> FALSE, out |-> FALSE]
  /\ ScanIdle
  /\ RegIdle
  /\ ProvIdle
  /\ CmdIdle
  /\ CfgIdle
  /\ ReplIdle

\* The scanner calls the split function on the data it has buffered.
CallSplit ==
  /\ ~split.called
  /\ LET n == FileLen(splitData)
         out == Split(splitData, 0, n, IndexNewline(splitData, 0, n), atEOF)
     IN  split' = [called |-> TRUE, out |-> out]
  /\ UNCHANGED << splitData, atEOF, str, printable, scanVars, regVars, provVars, cmdVars, cfgVars, replVars >>

SplitNext == CallSplit

SplitSpec == SplitInit /\ [][SplitNext]_vars

\* ------------------------------------------------------------------------
\* isPrintable called on its own
\* ------------------------------------------------------------------------

\* The most bytes of one kind that a string under test holds beside letters.
MaxOdd == 21

\* The most letters that follow them.
MaxAfter == 20

\* The bytes repeated within a string under test: a NUL, a tab, an invalid
\* byte, and the two bytes of U+00E9.
OddUnits == { << 0 >>, << TAB >>, << 255 >>, << 195, 169 >> }

RECURSIVE Repeat(_, _)
Repeat(unit, n) == IF n = 0 THEN << >> ELSE unit \o Repeat(unit, n - 1)

\* The letters before them: none, or as many as put them at the end of the
\* sample or just behind it.
LettersBefore ==
  {0, PrintableSample - MaxAfter, PrintableSample - 1, PrintableSample}

PrintableInputs ==
  {Fill(Ord("a"), p) \o Repeat(u, c) \o Fill(Ord("a"), q) :
     p \in LettersBefore, u \in OddUnits, c \in 0..MaxOdd, q \in 0..MaxAfter}

PrintableInit ==
  /\ str \in PrintableInputs
  /\ printable = [called |-> FALSE, out |-> FALSE]
  /\ splitData = << >>
  /\ atEOF = FALSE
  /\ split = [called |-> FALSE, out |-> NoToken]
  /\ ScanIdle
  /\ RegIdle
  /\ ProvIdle
  /\ CmdIdle
  /\ CfgIdle
  /\ ReplIdle

\* isPrintable is called on the string.
CallIsPrintable ==
  /\ ~printable.called
  /\ printable' = [called |-> TRUE, out |-> isPrintable(str)]
  /\ UNCHANGED << str, splitData, atEOF, split, scanVars, regVars, provVars, cmdVars, cfgVars, replVars >>

PrintableNext == CallIsPrintable

PrintableSpec == PrintableInit /\ [][PrintableNext]_vars

\* ------------------------------------------------------------------------
\* The configuration of an invocation: initConfig, LoadConfigFromEnv,
\* CreateProvider and PrintConfigInfo
\* ------------------------------------------------------------------------

\* An environment variable set to the decimal text of n, and one set to a
\* text that is no number.
Num(n) == [set |-> TRUE, num |-> TRUE, n |-> n]
Junk == [set |-> TRUE, num |-> FALSE, n |-> 0]

\* strconv.Atoi of the text of an environment variable.
Atoi(v) == [ok |-> v.num, n |-> v.n]

\* strings.ToLower on the provider names of the model.
ToLower(s) ==
  IF s = "OpenAI" THEN "openai" ELSE IF s = "GROQ" THEN "groq" ELSE s

\* Values of --max-tokens and --timeout; -1 is the default of the flag.
TokenFlags == {0 - 5, 0 - 1, 0, 1, 4096, 4097}
TimeoutFlags == {0 - 1, 0, 300, 301}

Flags == [maxTokens : TokenFlags, timeout : TimeoutFlags, showConfig : BOOLEAN]

\* API keys: none, one shorter and one longer than what PrintConfigInfo shows.
ShortKey == B(<< "k", "1" >>)
LongKey == B(<< "g", "s", "k", "-", "a", "1", "b", "2", "c", "3" >>)
OtherLongKey == B(<< "g", "s", "k", "-", "z", "9", "y", "8", "x", "7" >>)

Environs ==
  [AI_PROVIDER : {"", "OpenAI", "azure"},
   GROQ_API_KEY : {<< >>, LongKey, OtherLongKey},
   OPENAI_API_KEY : {<< >>, ShortKey},
   AI_MAX_TOKENS : {Unset, Num(100), Num(5000), Junk},
   AI_TIMEOUT : {Unset, Num(0)}]

\* initConfig: a flag that is positive overrides the environment variable.
initConfig(fl, e) ==
  [e EXCEPT !.AI_MAX_TOKENS = IF fl.maxTokens > 0 THEN Num(fl.maxTokens) ELSE @,
            !.AI_TIMEOUT = IF fl.timeout > 0 THEN Num(fl.timeout) ELSE @]

\* DefaultConfigs; the temperature is in hundredths.
DefaultConfigs ==
  [groq |-> [Provider |-> "groq", APIKey |-> << >>,
             Model |-> "llama-3.1-70b-versatile", Temperature |-> 10,
             MaxTokens |-> 50, BaseURL |-> "https://api.groq.com/openai/v1",
             Timeout |-> 30],
   openai |-> [Provider |-> "openai", APIKey |-> << >>,
               Model |-> "gpt-3.5-turbo", Temperature |-> 10,
               MaxTokens |-> 50, BaseURL |-> "https://api.openai.com/v1",
               Timeout |-> 30]]

\* LoadConfigFromEnv on the environment e: the configuration or the error.
LoadConfigFromEnv(e) ==
  LET providerStr == IF ToLower(e.AI_PROVIDER) = "" THEN "groq"
                     ELSE ToLower(e.AI_PROVIDER)
      apiKey == IF providerStr = "groq" THEN e.GROQ_API_KEY ELSE e.OPENAI_API_KEY
      tokens == Atoi(e.AI_MAX_TOKENS)
      timeout == Atoi(e.AI_TIMEOUT)
      base == [DefaultConfigs[providerStr] EXCEPT !.APIKey = apiKey]
      withTokens == IF e.AI_MAX_TOKENS.set
                      THEN [base EXCEPT !.MaxTokens = tokens.n] ELSE base
      withTimeout == IF e.AI_TIMEOUT.set
                       THEN [withTokens EXCEPT !.Timeout = timeout.n] ELSE withTokens
      fail(msg) == [config |-> NoConfig, err |-> msg]
  IN  IF providerStr \notin {"groq", "openai"} THEN fail("unsupported AI provider")
      ELSE IF apiKey = << >> THEN fail("API key environment variable is required")
      ELSE IF e.AI_MAX_TOKENS.set /\ ~tokens.ok THEN fail("invalid AI_MAX_TOKENS value")
      ELSE IF e.AI_MAX_TOKENS.set /\ ~(tokens.n > 0 /\ tokens.n <= 4096)
        THEN fail("AI_MAX_TOKENS must be between 1 and 4096")
      ELSE IF e.AI_TIMEOUT.set /\ ~timeout.ok THEN fail("invalid AI_TIMEOUT value")
      ELSE IF e.AI_TIMEOUT.set /\ ~(timeout.n > 0 /\ timeout.n <= 300)
        THEN fail("AI_TIMEOUT must be between 1 and 300 seconds")
      ELSE [config |-> withTimeout, err |-> "nil"]

\* ValidateConfig: the error it returns.
ValidateConfig(c) ==
  IF c.APIKey = << >> THEN "API key is required"
  ELSE IF c.Model = "" THEN "model is required"
  ELSE IF c.Temperature < 0 \/ c.Temperature > 200
    THEN "temperature must be between 0.0 and 2.0"
  ELSE IF c.MaxTokens <= 0 \/ c.MaxTokens > 4096
    THEN "max tokens must be between 1 and 4096"
  ELSE IF c.Timeout <= 0 \/ c.Timeout > 300
    THEN "timeout must be between 1 and 300 seconds"
  ELSE "nil"

\* The characters PrintConfigInfo shows of an API key.
ShownKeyLen == 8

\* A line of output: its fixed text, and the text, the number or the bytes
\* printed into it.
Line(label, text, num, bytes) ==
  [label |-> label, text |-> text, num |-> num, bytes |-> bytes]

\* PrintConfigInfo: the lines it prints; the bytes of the API key line are
\* the first bytes of the key, which "***" follows.
PrintConfigInfo(c) ==
  << Line("AI Configuration:", "", 0, << >>),
     Line("Provider", c.Provider, 0, << >>),
     Line("Model", c.Model, 0, << >>),
     Line("Temperature", "", c.Temperature, << >>),
     Line("Max Tokens", "", c.MaxTokens, << >>) >>
  \o (IF c.BaseURL # "" THEN << Line("Base URL", c.BaseURL, 0, << >>) >> ELSE << >>)
  \o << Line("Timeout", "s", c.Timeout, << >>),
        Line("API Key", "***", 0, SubSeq(c.APIKey, 1, Min(ShownKeyLen, Len(c.APIKey)))) >>

ConfigInit ==
  /\ flags \in Flags
  /\ environ \in Environs
  /\ config = NoConfig
  /\ cpc = "start"
  /\ cerr = "nil"
  /\ console = << >>
  /\ ScanIdle
  /\ RegIdle
  /\ ProvIdle
  /\ CmdIdle
  /\ UnitIdle
  /\ ReplIdle

\* cobra runs initConfig before the command.
InitConfig ==
  /\ cpc = "start"
  /\ environ' = initConfig(flags, environ)
  /\ cpc' = "initialized"
  /\ UNCHANGED << flags, config, cerr, console, scanVars, regVars, provVars, cmdVars, unitVars, replVars >>

\* runAnalyze loads the configuration and returns on its error.
LoadConfig ==
  /\ cpc = "initialized"
  /\ \E r \in {LoadConfigFromEnv(environ)} :
       /\ config' = r.config
       /\ IF r.err # "nil"
            THEN cpc' = "exit" /\ cerr' = "Error loading configuration"
            ELSE cpc' = "loaded" /\ cerr' = "nil"
  /\ UNCHANGED << flags, environ, console, scanVars, regVars, provVars, cmdVars, unitVars, replVars >>

\* AIFactory.CreateProvider: the configuration is validated and the provider
\* made, which holds it.
CreateProvider ==
  /\ cpc = "loaded"
  /\ IF ValidateConfig(config) # "nil"
       THEN cpc' = "exit" /\ cerr' = "invalid configuration"
       ELSE cpc' = "created" /\ cerr' = "nil"
  /\ UNCHANGED << flags, environ, config, console, scanVars, regVars, provVars, cmdVars, unitVars, replVars >>

\* runAnalyze prints the configuration when --show-config is set.
ShowConfig ==
  /\ cpc = "created"
  /\ console' = console \o (IF flags.showConfig THEN PrintConfigInfo(config) ELSE << >>)
  /\ cpc' = "shown"
  /\ UNCHANGED << flags, environ, config, cerr, scanVars, regVars, provVars, cmdVars, unitVars, replVars >>

ConfigNext ==
  \/ InitConfig
  \/ LoadConfig
  \/ CreateProvider
  \/ ShowConfig

ConfigSpec == ConfigInit /\ [][ConfigNext]_vars

\* ------------------------------------------------------------------------
\* A provider and the calls that change its configuration
\* ------------------------------------------------------------------------

\* Values given to SetModel, SetTemperature (in hundredths) and SetMaxTokens.
Models == {"", "gpt-4"}
Temperatures == {0 - 1, 0, 200, 201}
TokenCounts == {0, 1, 4096, 4097}

\* Configurations handed to CreateProvider and to UpdateConfig.
Configs ==
  {[DefaultConfigs.openai EXCEPT !.APIKey = k, !.Model = m, !.MaxTokens = n, !.Timeout = t] :
     k \in {<< >>, ShortKey}, m \in Models \cup {"gpt-3.5-turbo"},
     n \in {0, 50}, t \in {30, 301}}

SetterInit ==
  /\ flags = [maxTokens |-> 0 - 1, timeout |-> 0 - 1, showConfig |-> TRUE]
  /\ environ = [AI_PROVIDER |-> "", GROQ_API_KEY |-> << >>, OPENAI_API_KEY |-> << >>,
                AI_MAX_TOKENS |-> Unset, AI_TIMEOUT |-> Unset]
  /\ config \in Configs
  /\ cpc = "loaded"
  /\ cerr = "nil"
  /\ console = << >>
  /\ ScanIdle
  /\ RegIdle
  /\ ProvIdle
  /\ CmdIdle
  /\ UnitIdle
  /\ ReplIdle

\* UpdateConfig(c) on the provider: c replaces the configuration if it is
\* valid, else the error is returned.
UpdateConfig ==
  /\ cpc = "created"
  /\ \E c \in Configs :
       IF ValidateConfig(c) # "nil"
         THEN cerr' = ValidateConfig(c) /\ UNCHANGED config
         ELSE cerr' = "nil" /\ config' = c
  /\ UNCHANGED << flags, environ, cpc, console, scanVars, regVars, provVars, cmdVars, unitVars, replVars >>

SetModel ==
  /\ cpc = "created"
  /\ \E model \in Models : config' = [config EXCEPT !.Model = model]
  /\ UNCHANGED << flags, environ, cpc, cerr, console, scanVars, regVars, provVars, cmdVars, unitVars, replVars >>

SetTemperature ==
  /\ cpc = "created"
  /\ \E temp \in Temperatures : config' = [config EXCEPT !.Temperature = temp]
  /\ UNCHANGED << flags, environ, cpc, cerr, console, scanVars, regVars, provVars, cmdVars, unitVars, replVars >>

SetMaxTokens ==
  /\ cpc = "created"
  /\ \E tokens \in TokenCounts : config' = [config EXCEPT !.MaxTokens = tokens]
  /\ UNCHANGED << flags, environ, cpc, cerr, console, scanVars, regVars, provVars, cmdVars, unitVars, replVars >>

SetterNext ==
  \/ CreateProvider
  \/ UpdateConfig
  \/ SetModel
  \/ SetTemperature
  \/ SetMaxTokens

SetterSpec == SetterInit /\ [][SetterNext]_vars

\* ------------------------------------------------------------------------
\* Interactive pattern testing: runInteractiveTest
\* ------------------------------------------------------------------------

\* bufio.MaxScanTokenSize: the buffer limit of bufio.NewScanner(os.Stdin).
MaxScanTokenSize == 65536

\* Most lines a standard input of the model holds.
MaxInputs == 3

\* strings.ToLower within the byte alphabet of the model.
ToLowerBytes(s) == [i \in 1..Len(s) |-> IF s[i] \in Upper THEN s[i] + 32 ELSE s[i]]

\* dropCR of bufio.ScanLines.
DropCR(s) == IF s # << >> /\ s[Len(s)] = CR THEN SubSeq(s, 1, Len(s) - 1) ELSE s

\* Lines a user types, without their newline: empty and blank lines, the
\* commands in several spellings, strings to test.
TypedLines ==
  { << >>,
    << SPACE, TAB >>,
    B(<< "q", "u", "i", "t" >>),
    << SPACE >> \o B(<< "E", "X", "I", "T" >>) \o << CR >>,
    B(<< "H", "e", "l", "p" >>),
    B(<< "l", "i", "s", "t" >>) \o << SPACE >>,
    B(<< "V", "A", "L", "I", "D", "A", "T", "E" >>),
    B(<< "v", "1", ".", "2" >>),
    B(<< "q", "u", "i", "t", " ", "n", "o", "w" >>) }

\* The runs of one line: typed text, or a line of MaxScanTokenSize bytes
\* as a file piped into the session may hold.
LineRuns ==
  { IF t = << >> THEN << >> ELSE << Run(t, 1) >> : t \in TypedLines }
    \cup { << Run(<< Ord("x") >>, MaxScanTokenSize) >> }

\* The standard inputs of n lines, the last one with or without its newline.
RECURSIVE StdinsOf(_)
StdinsOf(n) ==
  IF n = 0 THEN { << >> }
  ELSE { l \o << Run(<< LF >>, 1) >> \o rest : l \in LineRuns, rest \in StdinsOf(n - 1) }
       \cup (IF n = 1 THEN { l : l \in LineRuns } ELSE {})

Stdins == UNION { StdinsOf(n) : n \in 0..MaxInputs }

\* The registries of the session: VersionPatterns as shipped, and with the
\* first self-test entry of its first pattern damaged.
SessionRegistries ==
  { VersionPatterns, [VersionPatterns EXCEPT ![1] = Damaged(VersionPatterns[1], {1})] }

\* patterns.ValidateAllPatterns() on each of these registries.
ValidateAllPatterns ==
  [r \in SessionRegistries |-> \A k \in 1..Len(r) : ValidatePattern(r[k]).ok]

\* The patterns of registry r whose FindStringSubmatch on t has a group.
Matching(r, t) ==
  { k \in 1..Len(r) : Len(FindStringSubmatch(r[k].Pattern, t)) > 1 }

\* scanner.Scan() with bufio.ScanLines on the input f from offset pos: the
\* token, the bytes consumed, and whether a token was delivered. No token is
\* delivered at the end of the input, nor when MaxScanTokenSize bytes
\* hold no newline (bufio.ErrTooLong).
ScanLines(f, pos) ==
  LET rem == FileLen(f) - pos
      i == IndexNewline(f, pos, pos + Min(rem, MaxScanTokenSize))
  IN  IF rem = 0 THEN [ok |-> FALSE, off |-> pos, len |-> 0, advance |-> 0]
      ELSE IF i >= 0 THEN [ok |-> TRUE, off |-> pos, len |-> i, advance |-> i + 1]
      ELSE IF rem >= MaxScanTokenSize
        THEN [ok |-> FALSE, off |-> pos, len |-> 0, advance |-> 0]
      ELSE [ok |-> TRUE, off |-> pos, len |-> rem, advance |-> rem]

\* What the body of the loop does with the line text: the history entry.
Handle(r, text) ==
  LET input == TrimSpace(text)
      lower == ToLowerBytes(input)
  IN  IF input = << >> THEN [input |-> input, did |-> "ignored", ok |-> TRUE, matches |-> {}]
      ELSE IF lower \in {B(<< "q", "u", "i", "t" >>), B(<< "e", "x", "i", "t" >>)}
        THEN [input |-> input, did |-> "quit", ok |-> TRUE, matches |-> {}]
      ELSE IF lower = B(<< "h", "e", "l", "p" >>)
        THEN [input |-> input, did |-> "help", ok |-> TRUE, matches |-> {}]
      ELSE IF lower = B(<< "l", "i", "s", "t" >>)
        THEN [input |-> input, did |-> "list", ok |-> TRUE, matches |-> {}]
      ELSE IF lower = B(<< "v", "a", "l", "i", "d", "a", "t", "e" >>)
        THEN [input |-> input, did |-> "validate", ok |-> ValidateAllPatterns[r],
              matches |-> {}]
      ELSE [input |-> input, did |-> "test", ok |-> TRUE, matches |-> Matching(r, input)]

InteractiveInit ==
  /\ stdin \in Stdins
  /\ ipos = 0
  /\ ipc = "idle"
  /\ iret = "nil"
  /\ handled = << >>
  /\ registry \in SessionRegistries
  /\ rpc = "idle"
  /\ sortArr = << >>
  /\ sortI = 0
  /\ sortJ = 0
  /\ vIdx = 0
  /\ allValid = TRUE
  /\ output = << >>
  /\ vResult = TRUE
  /\ ScanIdle
  /\ ProvIdle
  /\ CmdIdle
  /\ UnitIdle
  /\ CfgIdle

\* runInteractiveTest is called: the banner is printed, the scanner made.
runInteractiveTest ==
  /\ ipc = "idle"
  /\ ipc' = "prompt"
  /\ UNCHANGED << stdin, ipos, iret, handled, scanVars, regVars, provVars, cmdVars,
                  unitVars, cfgVars >>

\* One turn of the loop: the prompt, scanner.Scan(), and what the line asks.
ReadInput ==
  /\ ipc = "prompt"
  /\ \E t \in {ScanLines(stdin, ipos)} :
       IF ~t.ok
         THEN /\ ipc' = "returned"
              /\ iret' = "nil"
              /\ UNCHANGED << ipos, handled >>
         ELSE \E h \in {Handle(registry, DropCR(FileSlice(stdin, t.off, t.len)))} :
                /\ ipos' = ipos + t.advance
                /\ handled' = Append(handled, h)
                /\ ipc' = IF h.did = "quit" THEN "returned" ELSE "prompt"
                /\ iret' = iret
  /\ UNCHANGED << stdin, scanVars, regVars, provVars, cmdVars, unitVars, cfgVars >>

InteractiveNext ==
  \/ runInteractiveTest
  \/ ReadInput

InteractiveSpec == InteractiveInit /\ [][InteractiveNext]_vars

\* ------------------------------------------------------------------------
\* Properties of the scan
\* ------------------------------------------------------------------------

Range(s) == {s[i] : i \in 1..Len(s)}

NoDuplicates(s) == \A i, j \in 1..Len(s) : i # j => s[i] # s[j]

\* The trimmed first groups of the matches of one pattern on one line, left
\* to right.
CapturesOf(re, line) ==
  LET ms == FindAllStringSubmatch(re, line)
  IN  [j \in 1..Len(ms) |-> TrimSpace(ms[j][2])]

RECURSIVE LineCaptures(_, _), AllCaptures(_, _)
\* ... of the patterns k.. of the registry on one line, in declaration order.
LineCaptures(line, k) ==
  IF k > Len(VersionPatterns) THEN << >>
  ELSE CapturesOf(VersionPatterns[k].Pattern, line) \o LineCaptures(line, k + 1)

\* ... on the lines l.. of ls, in order.
AllCaptures(ls, l) ==
  IF l > Len(ls) THEN << >> ELSE LineCaptures(ls[l], 1) \o AllCaptures(ls, l + 1)

\* The candidate validity rule of the data model.
ValidShape(v) ==
  /\ Len(v) >= 1 /\ Len(v) <= 20
  /\ \E i \in 1..Len(v) : v[i] \in Digits
  /\ \E i \in 1..Len(v) : v[i] = Ord(".")
  /\ \A i \in 1..Len(v) : v[i] \in Digits \cup {Ord("."), Ord("-"), Ord("_")}

FirstIndex(v, caps) == CHOOSE i \in 1..Len(caps) : caps[i] = v /\ \A j \in 1..(i - 1) : caps[j] # v

\* C1: the candidate list of a scan, buffered or chunked, while it is built
\* and when it is returned, never holds the same string twice.
C1_NoDuplicateCandidates ==
  /\ NoDuplicates(candidates)
  /\ pc = "done" => NoDuplicates(result)

\* A scan has returned a list although some string was captured more than once.
C1_Witness ==
  /\ pc = "done" /\ lineCount > 0 /\ Len(result) > 0
  /\ LET caps == AllCaptures(extracted, 1)
     IN  \E i, j \in 1..Len(caps) : i # j /\ caps[i] = caps[j] /\ caps[i] \in Range(result)

\* C2: every candidate of a scan has length 1..20, a digit, a dot, and only
\* digits, dots, hyphens and underscores.
C2_CandidatesValid ==
  /\ \A i \in 1..Len(candidates) : ValidShape(candidates[i])
  /\ pc = "done" => \A i \in 1..Len(result) : ValidShape(result[i])

\* A scan has returned a non-empty list from lines on which a capture was too
\* long, another had no dot and another held a letter.
C2_Witness ==
  /\ pc = "done" /\ Len(result) > 0
  /\ LET caps == Range(AllCaptures(extracted, 1))
     IN  /\ \E v \in caps : Len(v) > 20
         /\ \E v \in caps : Len(v) <= 20 /\ \A i \in 1..Len(v) : v[i] # Ord(".")
         /\ \E v \in caps : \E i \in 1..Len(v) : v[i] \in Lower

\* The lines of file f as split at newlines.
FileLines(f) ==
  LET nl == {i \in 1..Len(f) : f[i] = LF}
      ends == nl \cup (IF f # << >> /\ f[Len(f)] # LF THEN {Len(f) + 1} ELSE {})
      start(e) == IF \E i \in nl : i < e
                    THEN 1 + CHOOSE i \in nl : i < e /\ \A j \in nl : j < e => j <= i
                    ELSE 1
      nth(k) == CHOOSE e \in ends : Cardinality({x \in ends : x <= e}) = k
  IN  [k \in 1..Cardinality(ends) |-> SubSeq(f, start(nth(k)), nth(k) - 1)]

\* The distinct valid captures of caps in first-seen order.
RECURSIVE FirstSeen(_, _, _)
FirstSeen(caps, i, seen) ==
  IF i > Len(caps) THEN seen
  ELSE FirstSeen(caps, i + 1,
                 IF ValidShape(caps[i]) /\ caps[i] \notin Range(seen)
                   THEN Append(seen, caps[i]) ELSE seen)

\* C3: ScanBinary never returns more than 20 candidates, and on a file with
\* more than 20 distinct valid tokens it returns exactly the first 20 in
\* first-seen order.
C3_ExactlyTwenty ==
  (pc = "done" /\ lineCount > 0) =>
    /\ Len(result) <= 20
    /\ LET all == FirstSeen(AllCaptures(SelectSeq(FileLines(Flat(file)), Accepted), 1),
                            1, << >>)
       IN  Len(all) > 20 => result = SubSeq(all, 1, 20)

\* C4: the returned candidates are in the order of their first occurrence,
\* taking the handled lines in order, on a line the patterns in declaration
\* order, and for a pattern its matches left to right.
C4_FirstOccurrenceOrder ==
  pc = "done" =>
    LET caps == AllCaptures(extracted, 1)
    IN  /\ \A i \in 1..Len(result) : result[i] \in Range(caps)
        /\ \A i, j \in 1..Len(result) :
             i < j => FirstIndex(result[i], caps) < FirstIndex(result[j], caps)

\* A returned list of two or more candidates, one of which occurs again on a
\* later line, and whose order on a line is not the left-to-right order.
C4_Witness ==
  /\ pc = "done" /\ Len(result) >= 2 /\ Len(extracted) >= 2
  /\ LET first == Range(LineCaptures(extracted[1], 1))
         second == Range(LineCaptures(extracted[2], 1))
     IN  /\ \E v \in Range(result) : v \in first /\ v \in second
         /\ \/ {B(<<"1",".","2">>), B(<<"3",".","4">>)} \subseteq first
            \/ {B(<<"1",".","2">>), B(<<"3",".","4">>)} \subseteq second

\* C5: every valid capture of every pattern on every handled line is in the
\* returned list: no pattern's match suppresses another pattern's captures.
C5_UnionOfAllPatterns ==
  pc = "done" =>
    \A l \in 1..Len(extracted) : \A k \in 1..Len(VersionPatterns) :
      \A v \in Range(CapturesOf(VersionPatterns[k].Pattern, extracted[l])) :
        ValidShape(v) => v \in Range(result)

\* A line on which a priority-1 pattern and a pattern of lower priority each
\* captured a different valid string, both returned.
C5_Witness ==
  /\ pc = "done"
  /\ \E l \in 1..Len(extracted) : \E k1, k2 \in 1..Len(VersionPatterns) :
       /\ VersionPatterns[k1].Priority = 1
       /\ VersionPatterns[k2].Priority > 1
       /\ \E v1 \in Range(CapturesOf(VersionPatterns[k1].Pattern, extracted[l])) :
          \E v2 \in Range(CapturesOf(VersionPatterns[k2].Pattern, extracted[l])) :
            /\ v1 # v2 /\ ValidShape(v1) /\ ValidShape(v2)
            /\ v2 \notin Range(CapturesOf(VersionPatterns[k1].Pattern, extracted[l]))
            /\ v1 \in Range(result) /\ v2 \in Range(result)

\* ------------------------------------------------------------------------
\* Properties of the registry operations
\* ------------------------------------------------------------------------

\* The patterns of reg in ascending priority, equal priorities in the order
\* they have in reg.
StableByPriority(reg) ==
  LET key(k) == reg[k].Priority * (Len(reg) + 1) + k
      nth(n) == CHOOSE k \in 1..Len(reg) :
                  Cardinality({x \in 1..Len(reg) : key(x) <= key(k)}) = n
  IN  [n \in 1..Len(reg) |-> reg[nth(n)]]

Names(reg) == [k \in 1..Len(reg) |-> reg[k].Name]

\* C6: what GetPatternsByPriority returns is the registry stably sorted by
\* priority: ascending, patterns of equal priority in declaration order.
C6_StableSort ==
  rpc = "sorted" => Names(sortArr) = Names(StableByPriority(registry))

\* Example i of pattern p fails its self-test: the pattern does not match
\* it, or its first group is not the expected string.
PairFails(p, i) ==
  LET matches == FindStringSubmatch(p.Pattern, p.Examples[i])
  IN  \/ Len(matches) < 2
      \/ i <= Len(p.Expected) /\ matches[2] # p.Expected[i]

\* The self-test entries of the shipped registry are parallel and all pass.
ShippedPairsPass ==
  \A k \in 1..Len(VersionPatterns) :
    /\ Len(VersionPatterns[k].Examples) = Len(VersionPatterns[k].Expected)
    /\ Len(VersionPatterns[k].Examples) > 0
    /\ \A i \in 1..Len(VersionPatterns[k].Examples) : ~PairFails(VersionPatterns[k], i)

FailingPairs(reg) ==
  UNION {{<< k, i >> : i \in {x \in 1..Len(reg[k].Examples) : PairFails(reg[k], x)}} :
         k \in 1..Len(reg)}

Reported(k, i) ==
  \E n \in 1..Len(output) :
    /\ output[n].pattern = registry[k].Name
    /\ output[n].example = i
    /\ output[n].kind \in {"failed to match", "extracted but expected"}

C9_EmptyCandidatesRejected ==
  (ppc = "returned" /\ Len(argCandidates) = 0) =>
    /\ perr # "nil"
    /\ version = << >>
    /\ requests = 0

\* The OpenAI provider has returned from a call with no candidate.
C9_Witness ==
  /\ ppc = "returned" /\ provider = "OpenAI" /\ argCandidates = << >>
  /\ perr = "no version candidates provided"

\* C10: a version that AnalyzeVersions returns without error is one of the
\* candidates it was given, whatever the remote service replied.
C10_VersionIsCandidate ==
  (ppc = "returned" /\ perr = "nil") =>
    \E i \in 1..Len(argCandidates) : version = argCandidates[i]

\* ------------------------------------------------------------------------
\* Properties of the analyze command
\* ------------------------------------------------------------------------

C12_ChooserAfterScan ==
  /\ chooserCalls <= 1
  /\ requests <= 1
  /\ (chooserCalls > 0 \/ ppc # "uncalled") =>
       /\ pc = "done" /\ scanErr = "nil"
       /\ Len(result) > 0
       /\ argCandidates = result
  /\ saved <= 1
  /\ saved > 0 => (ppc = "returned" /\ perr = "nil" /\ apc = "exit")
  /\ apc = "exit" =>
       /\ (pc = "done" /\ scanErr # "nil") <=> exitErr = "Error scanning binary"
       /\ (ppc = "returned" /\ perr # "nil") <=> exitErr = "Error analyzing with AI"

\* An invocation has ended without error: the scan found candidates, the
\* chooser was called once and chose, and the result file was written.
C12_Witness ==
  /\ apc = "exit" /\ exitErr = "nil"
  /\ Len(result) > 0 /\ chooserCalls = 1 /\ requests = 1
  /\ perr = "nil" /\ saved = 1

\* An invocation has ended with the label of the chooser.
C12_WitnessChooserFails ==
  /\ apc = "exit" /\ exitErr = "Error analyzing with AI"
  /\ chooserCalls = 1 /\ saved = 0

\* ------------------------------------------------------------------------
\* Properties of the caps of the buffered scan
\* ------------------------------------------------------------------------

\* Every examined line is counted and the count stays within the cap;
\* the buffered scan returns what was collected from the examined lines.
WithinCap ==
  /\ lineCount <= maxLines
  /\ Len(extracted) <= lineCount
  /\ (pc = "done" /\ scanErr = "nil" /\ cpos = 0 /\ sc.err = "nil") =>
       /\ result = candidates
       /\ Range(candidates) \subseteq Range(AllCaptures(extracted, 1))

\* While the buffered loop runs, the candidates and the lines that reach
\* the pattern loop change only in iterations that count lines, from below
\* the cap to the cap at most.
OnlyCountedLines ==
  (pc = "buffered" /\ (candidates' # candidates \/ extracted' # extracted)) =>
    /\ lineCount < maxLines /\ lineCount' > lineCount /\ lineCount' <= maxLines
    /\ Len(extracted') - Len(extracted) <= lineCount' - lineCount

\* C13: the loop of ScanBinary examines at most 50,000 emitted lines, the
\* lines its filters skip counted, and no candidate comes from a line
\* emitted after the 50,000th.
C13_LineCap == [](WithinCap) /\ [][OnlyCountedLines]_vars

\* A scan has returned nothing from a file whose 50,001st line holds a
\* version: 50,000 lines were counted.
C13_Witness ==
  /\ pc = "done" /\ scanErr = "nil"
  /\ lineCount = maxLines
  /\ Len(file) = 4
  /\ result = << >>

\* C14: no line of more than 1000 bytes is passed to the pattern loop, by
\* ScanBinary or by scanBinaryChunked.
C14_NoLongLineExtracted ==
  \A i \in 1..Len(extracted) : Len(extracted[i]) <= SkipLen

\* The scanner has consumed the whole file and has seen its end.
AtEndOfFile == sc.eof /\ sc.start = FileLen(file) /\ sc.end = FileLen(file)

\* A scan that has returned has returned no error, and its loop ended at
\* the end of the file, at the line cap or at the candidate cap; the data
\* the scanner holds is always a part of the file.
EndsWithinCaps ==
  /\ sc.start <= sc.end /\ sc.end <= FileLen(file)
  /\ sc.err = "nil"
  /\ pc = "done" =>
       /\ scanErr = "nil"
       /\ result = candidates
       /\ \/ AtEndOfFile
          \/ lineCount = maxLines
          \/ Len(candidates) >= MaxCandidates

\* Every line the loop examines has moved the scanner on in the file by a
\* byte at least.
TokensAdvance ==
  lineCount' > lineCount => sc'.start >= sc.start + (lineCount' - lineCount)

\* C19: ScanBinary on a readable file returns, without an error, its loop
\* having ended at the end of the file, at 50,000 lines or at 20 candidates,
\* and every token of the split function consumes a byte at least; so for a
\* single line of 10 MB without a newline.
C19_ScanTerminates ==
  /\ <>(pc = "done")
  /\ [](EndsWithinCaps)
  /\ [][TokensAdvance]_vars

\* The scan of the 10 MB line has returned at the end of the file, having
\* examined the line as tokens of 2000 bytes.
C19_Witness ==
  /\ pc = "done" /\ scanErr = "nil"
  /\ file = << Run(<< Ord("a") >>, LongLineLen) >>
  /\ AtEndOfFile
  /\ lineCount >= (LongLineLen - maxBufferSize) \div LineCap
  /\ lineCount < maxLines
  /\ result = << >>

\* ------------------------------------------------------------------------
\* Properties of the split function
\* ------------------------------------------------------------------------

\* The index of the first newline of the data, -1 if it has none.
FirstNewline == IndexNewline(splitData, 0, FileLen(splitData))

\* C15: the split function returns no error and no token of more than 2000
\* bytes; a line whose newline lies beyond index 2000, and data of more
\* than 2000 bytes without a newline at the end of the input, are emitted
\* as their first 2000 bytes; shorter ones are emitted whole.
C15_SplitTruncates ==
  split.called =>
    /\ split.out.err = "nil"
    /\ split.out.len <= LineCap
    /\ split.out.has => split.out.len <= FileLen(splitData)
    /\ FirstNewline >= 0 =>
         /\ split.out.has
         /\ split.out.len = Min(FirstNewline, LineCap)
         /\ split.out.advance = split.out.len + 1
    /\ (FirstNewline < 0 /\ atEOF /\ splitData # << >>) =>
         /\ split.out.has
         /\ split.out.len = Min(FileLen(splitData), LineCap)
         /\ split.out.advance = FileLen(splitData)

\* The split function has cut a line whose newline is at index 2001 to its
\* first 2000 bytes.
C15_Witness ==
  /\ split.called
  /\ FirstNewline = LineCap + 1
  /\ split.out.has /\ split.out.len = LineCap /\ split.out.advance = LineCap + 1

\* The indices 1000..1999 of the data that hold a space or a tab.
BreakCandidates ==
  {i \in BreakLow..(LineCap - 1) : FileByte(splitData, i) \in {SPACE, TAB}}

\* The split function is to force a break: more than maxBufferSize-1000
\* bytes are buffered, without a newline, and the input has not ended.
MustBreak ==
  /\ FileLen(splitData) > maxBufferSize - BreakMargin
  /\ FirstNewline < 0
  /\ ~atEOF

\* C16: a forced break is at a space or tab among the bytes 1000..1999 if
\* there is one, else at byte 2000, and the token is the bytes before the
\* break, which is where the next data begins.
C16_ForcedBreak ==
  (split.called /\ MustBreak) =>
    /\ split.out.has /\ split.out.err = "nil"
    /\ IF BreakCandidates # {}
         THEN split.out.len \in BreakCandidates
         ELSE split.out.len = LineCap
    /\ split.out.advance = split.out.len

\* A break has been forced at a tab at index 1001, the last blank among the
\* bytes 1000..1999, although a space precedes it at index 1000.
C16_Witness ==
  /\ split.called /\ MustBreak
  /\ BreakCandidates = {BreakLow, BreakLow + 1}
  /\ FileByte(splitData, BreakLow) = SPACE
  /\ split.out.len = BreakLow + 1 /\ split.out.advance = BreakLow + 1

\* A break has been forced at byte 2000, the bytes 1000..1999 holding no
\* blank.
C16_WitnessAtCap ==
  /\ split.called /\ MustBreak
  /\ BreakCandidates = {}
  /\ FileByte(splitData, LineCap) = SPACE
  /\ split.out.len = LineCap

\* ------------------------------------------------------------------------
\* Properties of the printability filter
\* ------------------------------------------------------------------------

\* The characters of s up to byte index p (0-based), st = [next, runes]
\* holding the index of the next character and the characters so far.
RuneAt(s, p, st) ==
  IF p # st.next THEN st
  ELSE LET d == DecodeRune(s, p + 1)
       IN  [next |-> p + d.w, runes |-> Append(st.runes, d.r)]

RECURSIVE RunesFrom(_, _, _, _)
RunesFrom(s, lo, hi, st) ==
  IF lo >= hi THEN st
  ELSE IF hi = lo + 1 THEN RuneAt(s, lo, st)
  ELSE LET mid == (lo + hi) \div 2
           left == RunesFrom(s, lo, mid, st)
       IN  RunesFrom(s, mid, hi, left)

\* The characters of the string s.
Runes(s) == RunesFrom(s, 0, Len(s), [next |-> 0, runes |-> << >>]).runes

\* The first 200 characters of s.
Sampled(s) ==
  LET rs == Runes(s) IN SubSeq(rs, 1, Min(Len(rs), PrintableSample))

\* How many of the characters rs are neither printable ASCII nor a tab, a
\* newline or a carriage return.
NonPrintable(rs) ==
  Cardinality({i \in 1..Len(rs) :
                 (rs[i] < 32 \/ rs[i] > 126) /\ rs[i] \notin {TAB, LF, CR}})

\* C17: isPrintable holds of a line exactly if the line is not empty and
\* at most 10% of the characters sampled from its first 200 are
\* non-printable, tab, newline and carriage return not counting as such.
C17_TenPercentOfSampled ==
  printable.called =>
    (printable.out <=>
       /\ Len(str) > 0
       /\ PrintableDivisor * NonPrintable(Sampled(str)) <= Len(Sampled(str)))

\* How many bytes of the line are NUL.
Nulls(line) == Cardinality({i \in 1..Len(line) : line[i] = 0})

\* C18: no line of which half the bytes are NUL reaches the pattern loop,
\* however long the line and wherever its NUL bytes lie.
C18_HalfNullExcluded ==
  \A i \in 1..Len(extracted) :
    Nulls(extracted[i]) + Nulls(extracted[i]) # Len(extracted[i])

\* ------------------------------------------------------------------------
\* The scanner's error at the end of the loop of ScanBinary
\* ------------------------------------------------------------------------

\* The scanner errors whose text holds the words "token too long".
TooLongErrors ==
  {e \in ReadErrors \cup {"token too long"} :
     e \in {"token too long", "read /tmp/token too long: input/output error"}}

\* The step from the loop of ScanBinary into scanBinaryChunked: the scanner
\* failed with "token too long", and the chunked pass begins at the start of
\* the same file with nothing of the buffered pass.
FallbackFromStart ==
  pc = "buffered" /\ pc' = "chunked" =>
    /\ sc'.err \in TooLongErrors
    /\ file' = file
    /\ cpos' = 0
    /\ lineBuffer' = << >>
    /\ candidates' = << >>
    /\ candidateSet' = {}
    /\ extracted' = << >>

\* What ScanBinary returned when its scanner ended with an error: the list
\* of the chunked pass and no error for "token too long", an error and no
\* list for any other error.
ReturnedOnScannerError ==
  pc = "done" /\ disk.open /\ sc.err # "nil" =>
    IF sc.err \in TooLongErrors
      THEN scanErr = "nil" /\ result = candidates
      ELSE scanErr = "error scanning file" /\ result = NoResult

\* The chunked pass runs only where the scanner failed with "token too long".
ChunkedOnlyOnTooLong == pc = "chunked" => sc.err \in TooLongErrors

\* C20: a scanner error holding "token too long" makes ScanBinary return
\* what scanBinaryChunked returns for the same file read from its start, with
\* no error and nothing of the buffered pass; any other scanner error makes
\* it return an error and no candidates.
C20_FallbackOnTooLong ==
  /\ [](ReturnedOnScannerError)
  /\ [](ChunkedOnlyOnTooLong)
  /\ [][FallbackFromStart]_vars

\* The buffered pass examined lines, its scanner failed with "token too
\* long", and the list returned is that of the chunked pass: the version of
\* the line with NUL bytes, which the buffered pass skips.
C20_Witness ==
  /\ pc = "done" /\ scanErr = "nil"
  /\ sc.err \in TooLongErrors
  /\ lineCount > 0
  /\ B(<< "7", ".", "7" >>) \in Range(result)
  /\ B(<< "1", ".", "2", ".", "3" >>) \in Range(result)

\* Another scanner error has made ScanBinary return an error and no list
\* after lines with versions were examined.
C20_WitnessOtherError ==
  /\ pc = "done" /\ scanErr = "error scanning file"
  /\ result = NoResult
  /\ candidates # << >>

\* ------------------------------------------------------------------------
\* The flushes of scanBinaryChunked
\* ------------------------------------------------------------------------

\* The line a flush of scanBinaryChunked takes out of the line buffer.
Flushed == NextFlush(file, cpos, lineBuffer).line

\* A step of scanBinaryChunked that flushes the line buffer.
FlushStep ==
  /\ pc = "chunked"
  /\ NextFlush(file, cpos, lineBuffer).flush
  /\ cpos' > cpos

\* C21: a flush of the chunked pass, at a newline or at a line buffer that
\* has filled up, takes out a line of at most 1000 bytes, and a flushed line
\* that is not empty and is printable is handed to the pattern loop.
C21_FlushedLinesExtracted ==
  [][FlushStep =>
       /\ Len(Flushed) <= SkipLen
       /\ (Len(Flushed) > 0 /\ isPrintable(Flushed)
             => extracted' = Append(extracted, Flushed))]_vars

\* C22: a Read of the chunked pass that fails with an error other than the
\* end of the file makes the scan return an error.
C22_ChunkedReadErrorFails == [][ChunkedReadFails => scanErr' # "nil"]_vars

\* ------------------------------------------------------------------------
\* The configuration of an invocation
\* ------------------------------------------------------------------------

\* The API key the invocation is configured with.
ConfiguredKey ==
  IF ToLower(environ.AI_PROVIDER) = "openai" THEN environ.OPENAI_API_KEY
  ELSE environ.GROQ_API_KEY

\* s is a beginning of t that is not empty.
IsPrefix(s, t) == Len(s) > 0 /\ Len(s) <= Len(t) /\ SubSeq(t, 1, Len(s)) = s

\* C23: nothing of the API key is printed: no line of the output holds a
\* beginning of the configured key, so the output is the same whatever the
\* key.
C23_KeyNeverPrinted ==
  \A i \in 1..Len(console) : ~IsPrefix(console[i].bytes, ConfiguredKey)

\* C26: a command that got past its configuration was given no --max-tokens
\* outside 1..4096 and no --timeout outside 1..300 (-1 is the value of a
\* flag that is not given).
C26_FlagsRangeChecked ==
  cpc \in {"loaded", "created", "shown"} =>
    /\ flags.maxTokens = 0 - 1 \/ (flags.maxTokens >= 1 /\ flags.maxTokens <= 4096)
    /\ flags.timeout = 0 - 1 \/ (flags.timeout >= 1 /\ flags.timeout <= 300)

\* C30: the configuration a created provider holds satisfies ValidateConfig,
\* whatever calls of UpdateConfig, SetModel, SetTemperature and SetMaxTokens
\* were made on the provider.
C30_ProviderConfigValid == cpc = "created" => ValidateConfig(config) = "nil"

\* ------------------------------------------------------------------------
\* Order in which ExtractLine applies the patterns
\* ------------------------------------------------------------------------

\* The positions at which the scan's pattern list holds the pattern of
\* table entry i (ExtractLine walks that list from position 1 upwards).
ScanPositions(i) ==
  {k \in 1..Len(GetCompiledPatterns) : GetCompiledPatterns[k] = VersionPatterns[i].Pattern}

\* The list ExtractLine walks holds the patterns in priority order.
InPriorityOrder ==
  \A i, j \in 1..Len(VersionPatterns) :
    VersionPatterns[i].Priority < VersionPatterns[j].Priority =>
      \A ki \in ScanPositions(i) : \A kj \in ScanPositions(j) : ki < kj

\* C24: the scan applies the patterns in priority order: for every line
\* handed to the pattern loop, a pattern with a smaller priority number
\* was applied to it before every pattern with a larger priority number.
C24_PriorityOrder == \A n \in 1..Len(extracted) : InPriorityOrder

\* ------------------------------------------------------------------------
\* The interactive session against its input
\* ------------------------------------------------------------------------

\* The lines of the input f from offset pos, as [off, len], newline excluded.
RECURSIVE LinesFrom(_, _)
LinesFrom(f, pos) ==
  IF pos >= FileLen(f) THEN << >>
  ELSE LET i == IndexNewline(f, pos, FileLen(f))
       IN  IF i >= 0 THEN << [off |-> pos, len |-> i] >> \o LinesFrom(f, pos + i + 1)
           ELSE << [off |-> pos, len |-> FileLen(f) - pos] >>

\* The part [off, len] of f without the white space at its beginning.
RECURSIVE SkipLeft(_, _, _)
SkipLeft(f, off, len) ==
  IF len > 0 /\ IsSpace(FileByte(f, off)) THEN SkipLeft(f, off + 1, len - 1)
  ELSE [off |-> off, len |-> len]

\* The part [off, len] of f without the white space at its end.
RECURSIVE SkipRight(_, _, _)
SkipRight(f, off, len) ==
  IF len > 0 /\ IsSpace(FileByte(f, off + len - 1)) THEN SkipRight(f, off, len - 1)
  ELSE [off |-> off, len |-> len]

\* Where line l of f stands once trimmed.
TypedSpan(f, l) ==
  LET a == SkipLeft(f, l.off, l.len) IN SkipRight(f, a.off, a.len)

\* Line l of f, trimmed.
Typed(f, l) == LET t == TypedSpan(f, l) IN FileSlice(f, t.off, t.len)

\* The input is the word w in any case.
IsWord(input, w) == ToLowerBytes(input) = B(w)

IsQuit(input) ==
  IsWord(input, << "q", "u", "i", "t" >>) \/ IsWord(input, << "e", "x", "i", "t" >>)

\* What a trimmed input line asks for.
Wanted(input) ==
  IF input = << >> THEN "ignored"
  ELSE IF IsQuit(input) THEN "quit"
  ELSE IF IsWord(input, << "h", "e", "l", "p" >>) THEN "help"
  ELSE IF IsWord(input, << "l", "i", "s", "t" >>) THEN "list"
  ELSE IF IsWord(input, << "v", "a", "l", "i", "d", "a", "t", "e" >>) THEN "validate"
  ELSE "test"

\* The lines of f up to its first quit or exit, that one included.
Asked(f) ==
  LET ls == LinesFrom(f, 0)
      Q == {n \in 1..Len(ls) : TypedSpan(f, ls[n]).len = 4 /\ IsQuit(Typed(f, ls[n]))}
  IN  IF Q = {} THEN Len(ls) ELSE Least(Q)

\* C25: the session handles the trimmed lines of its input in order, each
\* as what it asks for (ignored when empty, quit, help, list, validate,
\* and tested against all patterns otherwise, never a command tested as a
\* string); it returns nil, and it returns only after the first quit or
\* exit or at the end of the input, whatever validate reported before.
C25_InteractiveSession ==
  /\ Len(handled) <= Asked(stdin)
  /\ \A n \in 1..Len(handled) :
       /\ handled[n].input = Typed(stdin, LinesFrom(stdin, 0)[n])
       /\ handled[n].did = Wanted(handled[n].input)
       /\ handled[n].did = "test" =>
            handled[n].matches = Matching(registry, handled[n].input)
  /\ ipc = "returned" => iret = "nil" /\ Len(handled) = Asked(stdin)

\* The same for the inputs whose lines are all shorter than the scanner's
\* buffer.
SessionOfTypedLines ==
  (\A k \in 1..Len(stdin) : RunLen(stdin[k]) < 100) => C25_InteractiveSession

\* ------------------------------------------------------------------------
\* The buffered reader never runs out of buffer
\* ------------------------------------------------------------------------

\* The file holds a full buffer of bytes from the scanner's position on.
BufferFills == FileLen(file) - sc.start >= maxBufferSize

\* Given a full buffer of the file from the scanner's position on, the
\* split function returns a token or advances: it does not ask for more.
FullBufferSplits ==
  BufferFills =>
    LET r == Split(file, sc.start, maxBufferSize,
                   IndexNewline(file, sc.start, sc.start + maxBufferSize), FALSE)
    IN  r.err = "nil" /\ (r.has \/ r.advance > 0)

\* C27: on a disk that reads without error the scanner of ScanBinary never
\* fails with "token too long": on a full buffer the split function returns
\* a token, and ScanBinary never goes on to scanBinaryChunked, whatever the
\* file holds.
C27_NeverTooLong ==
  /\ sc.err # "token too long"
  /\ pc # "chunked"
  /\ pc = "buffered" => FullBufferSplits

\* The scan of the 10 MB line has taken tokens out of a buffer that was
\* full, and goes on.
C27_Witness ==
  /\ pc = "buffered"
  /\ file = << Run(<< Ord("a") >>, LongLineLen) >>
  /\ lineCount > 0
  /\ BufferFills
  /\ sc.end - sc.start >= maxBufferSize - LineCap
  /\ sc.err = "nil"

\* ------------------------------------------------------------------------
\* What the split function consumes beyond its token
\* ------------------------------------------------------------------------

\* C28: the split function loses no data: the bytes it consumes are the
\* token it emits, followed at most by the one newline byte that ended the
\* token; no other byte is consumed and dropped.
C28_NoByteDropped ==
  split.called =>
    \/ split.out.advance = split.out.len
    \/ /\ split.out.advance = split.out.len + 1
       /\ FileByte(splitData, split.out.len) = LF

\* ------------------------------------------------------------------------
\* The buffered pass against the chunked pass
\* ------------------------------------------------------------------------

\* The file holds only printable ASCII bytes and newlines.
PrintableAscii(f) ==
  \A k \in 1..Len(f) : \A i \in 1..Len(f[k].unit) :
    f[k].unit[i] = LF \/ (f[k].unit[i] >= 32 /\ f[k].unit[i] <= 126)

\* The newline bytes of the runs k.. of f.
RECURSIVE NewlinesFrom(_, _)
NewlinesFrom(f, k) ==
  IF k > Len(f) THEN 0
  ELSE Cardinality({i \in 1..Len(f[k].unit) : f[k].unit[i] = LF}) * f[k].times
         + NewlinesFrom(f, k + 1)

\* The lines of f: those a newline ends, and the one after the last newline.
LinesOf(f) ==
  NewlinesFrom(f, 1)
    + (IF FileLen(f) > 0 /\ FileByte(f, FileLen(f) - 1) # LF THEN 1 ELSE 0)

\* The list the buffered pass of ScanBinary returns for f from a disk that
\* reads without error.
BufferedResult(f) == LoopRange(LoopStart, maxLines, f).candidates

\* C29: for a file of printable ASCII bytes and newlines with fewer than
\* 50,000 lines, scanBinaryChunked returns the list that the buffered pass
\* of ScanBinary returns, in the same order: every list a scan of such a
\* file returns is that of the buffered pass.
C29_SameCandidates ==
  (pc = "done" /\ scanErr = "nil" /\ PrintableAscii(file) /\ LinesOf(file) < maxLines)
    => result = BufferedResult(file)

=============================================================================
